---- MODULE Spec2Model ----
(***************************************************************************)
(* Payment workflows of mba982-banking-workflows: the two Temporal         *)
(* workflows (modern-payment-v1.ts, modern-payment-v2.ts), the banking     *)
(* activities they call (banking-activities.ts) and the start endpoint of  *)
(* the Express server (index.ts and its routing variant).                  *)
(*                                                                         *)
(* Strings that the code builds with template literals are modelled as     *)
(* sequences of string chunks; concatenation is \o.                        *)
(***************************************************************************)
EXTENDS Bags, Integers, Sequences, FiniteSets, TLC

\* ---------------------------------------------------------------- bounds
\* audit appends (POST /audit_logs) that the environment may lose in one behaviour
MaxLost == 1
\* failed activity attempts the environment may inject in one behaviour
MaxFaults == 3

\* rows of the ledgers validateAccount is tried on
MaxLedger == 2
\* rows of a fraud_flags answer enumerated for performFraudCheck
MaxFlags == 2
\* values the clock of the worker takes
MaxNow == 3

\* ------------------------------------------------------ program constants
\* retry: { maximumAttempts: 3 } of proxyActivities
MaximumAttempts == 3
\* const useV2 = amount >= 1000
RoutingThreshold == 1000
\* if (amount > 10000) adjustedRiskScore += 20
LargeAmount == 10000
LargeAmountRisk == 20
\* accountFlag.isBlocked || adjustedRiskScore > 80
BlockScore == 80
\* riskScore of an account without a fraud record
NoHistoryRisk == 10

\* ------------------------------------------------------------ environment
RunIds == {1, 2}

\* request bodies the start endpoint is given ("" and 0 are the falsy values)
ReqFrom == {"", "ACC1", "ACC2", "ACC3", "ACC4", "ACC9"}
ReqTo == {"ACC1", "ACC9"}
ReqAmount == {-500, 0, 500, 1000, 12000}

\* Math.floor(Math.random() * 1000) of the start endpoint
RandomSuffixes == {"7"}

\* GET /accounts of the mock ledger at start: ACC9 does not exist
InitAccounts ==
  << [id |-> "1", accountNumber |-> "ACC1", balance |-> 5000,  status |-> "ACTIVE"],
     [id |-> "2", accountNumber |-> "ACC2", balance |-> 20000, status |-> "ACTIVE"],
     [id |-> "3", accountNumber |-> "ACC3", balance |-> 5000,  status |-> "FROZEN"],
     [id |-> "4", accountNumber |-> "ACC4", balance |-> 1000,  status |-> "ACTIVE"] >>

\* GET /fraud_flags of the mock fraud service: ACC1 has no record
InitFraudFlags ==
  << [accountId |-> "ACC2", riskScore |-> 70, isBlocked |-> FALSE, reason |-> "velocity"],
     [accountId |-> "ACC4", riskScore |-> 30, isBlocked |-> TRUE,  reason |-> "chargeback"] >>

VARIABLES
  accounts,    \* the ledger gateway's account rows
  fraudFlags,  \* the fraud gateway's rows
  payments,    \* the payment_requests rows; a row's id is its index
  auditLogs,   \* the audit sink's rows, as a bag: nothing reads their order
  lost,        \* audit appends lost so far
  faults,      \* failed activity attempts so far
  now,         \* the value Date.now() returns
  runs         \* per run: the workflow function's locals and position

vars == <<accounts, fraudFlags, payments, auditLogs, lost, faults, now, runs>>

\* ---------------------------------------------------------------- helpers
None == <<>>
Some(x) == <<x>>

\* accounts.find((acc) => acc.accountNumber === accountNumber), scanning from row i
RECURSIVE FindAccountFrom(_, _, _)
FindAccountFrom(accts, accountNumber, i) ==
  IF i > Len(accts) THEN None
  ELSE IF accts[i].accountNumber = accountNumber THEN Some(accts[i])
  ELSE FindAccountFrom(accts, accountNumber, i + 1)

FindAccount(accts, accountNumber) == FindAccountFrom(accts, accountNumber, 1)

\* fraudFlags.find((flag) => flag.accountId === accountNumber), scanning from row i
RECURSIVE FindFraudFlagFrom(_, _, _)
FindFraudFlagFrom(flags, accountNumber, i) ==
  IF i > Len(flags) THEN None
  ELSE IF flags[i].accountId = accountNumber THEN Some(flags[i])
  ELSE FindFraudFlagFrom(flags, accountNumber, i + 1)

FindFraudFlag(flags, accountNumber) == FindFraudFlagFrom(flags, accountNumber, 1)

\* a PUT that overwrites the balance of every row
PutAccount_IgnoresId(accts, account, newBalance) ==
  [i \in 1..Len(accts) |-> [accts[i] EXCEPT !.balance = newBalance]]

\* PUT /accounts/:id with {...account, balance: newBalance}
PutAccount(accts, account, newBalance) ==
  [i \in 1..Len(accts) |->
     IF accts[i].id = account.id
     THEN [account EXCEPT !.balance = newBalance]
     ELSE accts[i]]

\* the rows of a sequence as a bag
BagOf(s) ==
  [e \in {s[i] : i \in 1..Len(s)} |-> Cardinality({i \in 1..Len(s) : s[i] = e})]

\* s is a contiguous part of t
Contains(t, s) ==
  \E i \in 0..(Len(t) - Len(s)) : SubSeq(t, i + 1, i + Len(s)) = s

\* ------------------------------------------------------------- activities
\* validateAccount with the balance test written as <=
validateAccount_RejectsExactBalance(accts, accountNumber, requiredAmount) ==
  LET account == FindAccount(accts, accountNumber)
  IN IF account = None
     THEN [isValid |-> FALSE, account |-> None,
           reason |-> <<"Account ", accountNumber, " not found">>]
     ELSE IF account[1].status # "ACTIVE"
     THEN [isValid |-> FALSE, account |-> account,
           reason |-> <<"Account ", accountNumber, " is ", account[1].status>>]
     ELSE IF account[1].balance <= requiredAmount
     THEN [isValid |-> FALSE, account |-> account,
           reason |-> <<"Insufficient funds. Balance: ", ToString(account[1].balance),
                        ", Required: ", ToString(requiredAmount)>>]
     ELSE [isValid |-> TRUE, account |-> account,
           reason |-> <<"Account validation successful">>]

\* validateAccount, after GET /accounts has answered with accts
validateAccount(accts, accountNumber, requiredAmount) ==
  LET account == FindAccount(accts, accountNumber)
  IN IF account = None
     THEN [isValid |-> FALSE, account |-> None,
           reason |-> <<"Account ", accountNumber, " not found">>]
     ELSE IF account[1].status # "ACTIVE"
     THEN [isValid |-> FALSE, account |-> account,
           reason |-> <<"Account ", accountNumber, " is ", account[1].status>>]
     ELSE IF account[1].balance < requiredAmount
     THEN [isValid |-> FALSE, account |-> account,
           reason |-> <<"Insufficient funds. Balance: ", ToString(account[1].balance),
                        ", Required: ", ToString(requiredAmount)>>]
     ELSE [isValid |-> TRUE, account |-> account,
           reason |-> <<"Account validation successful">>]

\* let adjustedRiskScore = accountFlag.riskScore; if (amount > 10000) adjustedRiskScore += 20
\* the large-amount test with >= for >
AdjustedRiskScore_AtThreshold(accountFlag, amount) ==
  IF amount >= LargeAmount
  THEN accountFlag.riskScore + LargeAmountRisk
  ELSE accountFlag.riskScore

AdjustedRiskScore(accountFlag, amount) ==
  IF amount > LargeAmount
  THEN accountFlag.riskScore + LargeAmountRisk
  ELSE accountFlag.riskScore

\* performFraudCheck, after GET /fraud_flags has answered with flags
performFraudCheck(flags, accountNumber, amount) ==
  LET accountFlag == FindFraudFlag(flags, accountNumber)
  IN IF accountFlag = None
     THEN [isBlocked |-> FALSE, riskScore |-> NoHistoryRisk,
           reason |-> <<"No fraud history - low risk">>]
     ELSE LET adjustedRiskScore == AdjustedRiskScore(accountFlag[1], amount)
              isBlocked == accountFlag[1].isBlocked \/ adjustedRiskScore > BlockScore
          IN [isBlocked |-> isBlocked, riskScore |-> adjustedRiskScore,
              reason |-> IF isBlocked
                         THEN <<"High risk detected: ", accountFlag[1].reason>>
                         ELSE <<"Risk assessment passed - Score: ",
                                ToString(adjustedRiskScore)>>]

\* the debit with the sign of the credit
DebitNewBalance_Adds(account, amount) == account.balance + amount

\* const newBalance = account.balance - amount
DebitNewBalance(account, amount) == account.balance - amount

\* the credit with the sign of the debit
CreditNewBalance_Subtracts(account, amount) == account.balance - amount

\* const newBalance = account.balance + amount
CreditNewBalance(account, amount) == account.balance + amount

\* the row createPaymentRequest posts
NewPaymentRow(fromAccount, toAccount, amount, workflowId, description) ==
  [fromAccount |-> fromAccount, toAccount |-> toAccount, amount |-> amount,
   status |-> "PENDING", workflowId |-> workflowId, description |-> description]

\* the row updatePaymentStatus puts: {...payment, status, ...(details && {description})}
UpdatedPaymentRow(payment, status, details) ==
  [payment EXCEPT !.status = status,
                  !.description = IF details # <<>>
                                  THEN payment.description \o <<" - ">> \o details
                                  ELSE payment.description]

\* ------------------------------------------------------------- workflows
\* the three workflow definitions: modernPaymentV1Workflow and the two
\* definitions of modernPaymentV2Workflow in modern-payment-v2.ts
Defs == {"v1", "v2a", "v2b"}

\* the second argument of every logAuditEvent call of a definition
AuditVersion(def) == IF def = "v1" THEN "v1" ELSE "v2"

\* executionSummary.version
SummaryVersion(def) == IF def = "v1" THEN "Modern v1" ELSE "Modern v2"

\* executionSummary.architecture
Architecture(def) ==
  CASE def = "v1"  -> "Temporal Orchestrated"
    [] def = "v2a" -> "Temporal Orchestrated + Fraud Check"
    [] def = "v2b" -> "Temporal Orchestrated + PM Configured"

\* const workflowId = `modern-v1-${Date.now()}` / `modern-v2-${Date.now()}`
InternalWorkflowId(def, t) ==
  <<"modern-", IF def = "v1" THEN "v1" ELSE "v2", "-", ToString(t)>>

\* the description argument of createPaymentRequest
PaymentDescription(def, description) ==
  CASE def = "v1"  -> <<description, " (Orchestrated v1)">>
    [] def = "v2a" -> <<description, " (v2 - With Fraud Check)">>
    [] def = "v2b" -> <<description, " (Modern v2 - PM Configured with Fraud Check)">>

\* a run that has not been started
IdleRun ==
  [pc |-> "idle", response |-> "none", startId |-> <<>>, def |-> "none",
   input |-> [fromAccount |-> "", toAccount |-> "", amount |-> 0],
   workflowId |-> <<>>, stepsExecuted |-> <<>>,
   paymentId |-> None, validation |-> None, fraudResult |-> None,
   fraudCheckResult |-> [performed |-> FALSE, riskScore |-> 0, action |-> "none"],
   debitResult |-> None, creditResult |-> None,
   attempt |-> 1, account |-> None, error |-> <<>>, result |-> None,
   emitted |-> <<>>, calls |-> <<>>, writes |-> <<>>]

\* the workflow reaches an await of an activity: the runtime starts attempt 1
Goto(rec, site) == [rec EXCEPT !.pc = site, !.attempt = 1, !.account = None]

\* stepsExecuted.push(step) followed by the PENDING logAuditEvent of the step
EnterStep(rec, step, site) ==
  Goto([rec EXCEPT !.stepsExecuted = Append(@, step)], site)

\* the object a return statement of the workflow builds
PaymentResult(rec, success, paymentId, error, withFraud) ==
  [success |-> success, paymentId |-> paymentId, error |-> error,
   stepsExecuted |-> rec.stepsExecuted,
   version |-> SummaryVersion(rec.def),
   architecture |-> Architecture(rec.def),
   fraudCheckResult |-> IF withFraud /\ rec.def = "v2b"
                        THEN Some(rec.fraudCheckResult) ELSE None]

\* a failure branch returning its object without the error field
ReturnFailure_OmitsError(rec, error, withFraud) ==
  [rec EXCEPT !.pc = "done",
              !.result = Some(PaymentResult(rec, FALSE, rec.paymentId, None, withFraud))]

\* return { success: false, paymentId, error, ... } of an explicit failure branch
ReturnFailure(rec, error, withFraud) ==
  [rec EXCEPT !.pc = "done",
              !.result = Some(PaymentResult(rec, FALSE, rec.paymentId, Some(error), withFraud))]

\* a v2 whose success object leaves out paymentId
ReturnSuccess_V2OmitsPaymentId(rec) ==
  [rec EXCEPT !.pc = "done",
              !.result = Some(PaymentResult(rec, TRUE,
                                            IF rec.def = "v1" THEN rec.paymentId ELSE None,
                                            None, TRUE))]

\* return { success: true, paymentId, ... }
ReturnSuccess(rec) ==
  [rec EXCEPT !.pc = "done",
              !.result = Some(PaymentResult(rec, TRUE, rec.paymentId, None, TRUE))]

\* a catch block that records its PAYMENT_FAILED step in stepsExecuted
ReturnCaught_PushesStep(rec) ==
  [rec EXCEPT !.pc = "done",
              !.stepsExecuted = Append(@, "PAYMENT_FAILED"),
              !.result = Some(PaymentResult([rec EXCEPT !.stepsExecuted =
                                               Append(@, "PAYMENT_FAILED")],
                                            FALSE, None, Some(rec.error), TRUE))]

\* return { success: false, error: errorMessage, ... } of the catch block:
\* paymentId is scoped to the try block and is not part of the object
ReturnCaught(rec) ==
  [rec EXCEPT !.pc = "done",
              !.result = Some(PaymentResult(rec, FALSE, None, Some(rec.error), TRUE))]

\* a retry policy without maximumAttempts
Throw_RetriesForever(rec, message) ==
  [rec EXCEPT !.attempt = @ + 1, !.account = None,
              !.pc = CASE rec.pc = "DEBIT_PUT" -> "DEBIT"
                       [] rec.pc = "CREDIT_PUT" -> "CREDIT"
                       [] OTHER -> rec.pc]

\* an attempt of the awaited activity threw message: the runtime retries it
\* up to maximumAttempts, then the await throws into the catch block
Throw(rec, message) ==
  IF rec.attempt < MaximumAttempts
  THEN [rec EXCEPT !.attempt = @ + 1, !.account = None,
                   !.pc = CASE rec.pc = "DEBIT_PUT" -> "DEBIT"
                            [] rec.pc = "CREDIT_PUT" -> "CREDIT"
                            [] OTHER -> rec.pc]
  ELSE Goto([rec EXCEPT !.error = message], "L_PAYMENT_FAILED")

\* a workflow that makes every attempt itself, as a call of its own
Invoke_PerAttempt(rec, name, arg) ==
  [rec EXCEPT !.calls = Append(@, [name |-> name, arg |-> arg])]

\* the workflow invokes an activity: recorded once, on its first attempt
Invoke(rec, name, arg) ==
  IF rec.attempt = 1
  THEN [rec EXCEPT !.calls = Append(@, [name |-> name, arg |-> arg])]
  ELSE rec

\* the await sites of logAuditEvent in a workflow definition
AuditSites ==
  {"L_CREATE_PENDING", "L_CREATE_SUCCESS", "L_VALIDATE_PENDING", "L_VALIDATE_FAILED",
   "L_VALIDATE_SUCCESS", "L_FRAUD_PENDING", "L_FRAUD_BLOCKED", "L_FRAUD_SUCCESS",
   "L_DEBIT_PENDING", "L_DEBIT_FAILED", "L_DEBIT_SUCCESS", "L_CREDIT_PENDING",
   "L_CREDIT_FAILED", "L_CREDIT_SUCCESS", "L_COMPLETED", "L_PAYMENT_FAILED"}

\* stepName and status arguments of the logAuditEvent call at a site
AuditStep(site) ==
  CASE site \in {"L_CREATE_PENDING", "L_CREATE_SUCCESS"} -> "CREATE_PAYMENT_REQUEST"
    [] site \in {"L_VALIDATE_PENDING", "L_VALIDATE_FAILED", "L_VALIDATE_SUCCESS"}
         -> "VALIDATE_ACCOUNT"
    [] site \in {"L_FRAUD_PENDING", "L_FRAUD_BLOCKED", "L_FRAUD_SUCCESS"} -> "FRAUD_CHECK"
    [] site \in {"L_DEBIT_PENDING", "L_DEBIT_FAILED", "L_DEBIT_SUCCESS"} -> "DEBIT_ACCOUNT"
    [] site \in {"L_CREDIT_PENDING", "L_CREDIT_FAILED", "L_CREDIT_SUCCESS"} -> "CREDIT_ACCOUNT"
    [] site = "L_COMPLETED" -> "PAYMENT_COMPLETED"
    [] site = "L_PAYMENT_FAILED" -> "PAYMENT_FAILED"

AuditStatus(site) ==
  CASE site \in {"L_CREATE_PENDING", "L_VALIDATE_PENDING", "L_FRAUD_PENDING",
                 "L_DEBIT_PENDING", "L_CREDIT_PENDING"} -> "PENDING"
    [] site \in {"L_CREATE_SUCCESS", "L_VALIDATE_SUCCESS", "L_FRAUD_SUCCESS",
                 "L_DEBIT_SUCCESS", "L_CREDIT_SUCCESS", "L_COMPLETED"} -> "SUCCESS"
    [] site \in {"L_VALIDATE_FAILED", "L_DEBIT_FAILED", "L_CREDIT_FAILED",
                 "L_PAYMENT_FAILED"} -> "FAILED"
    [] site = "L_FRAUD_BLOCKED" -> "BLOCKED"

\* details argument of the logAuditEvent call at the site the run is at
AuditDetails(rec) ==
  LET def == rec.def
      site == rec.pc
  IN CASE site = "L_CREATE_PENDING" ->
            <<"Starting payment: ", rec.input.fromAccount, " -> ", rec.input.toAccount,
              " | Amount: ", ToString(rec.input.amount)>>
       [] site = "L_CREATE_SUCCESS" ->
            <<"Payment request created: ", ToString(rec.paymentId[1])>>
       [] site = "L_VALIDATE_PENDING" ->
            <<"Validating account ", rec.input.fromAccount>>
       [] site = "L_VALIDATE_FAILED" ->
            <<"Validation failed: ">> \o rec.validation[1].reason \o
            (CASE def = "v1"  -> <<" | Temporal automatically handles failure">>
               [] def = "v2a" -> <<>>
               [] def = "v2b" -> <<" | v2 workflow terminated">>)
       [] site = "L_VALIDATE_SUCCESS" ->
            <<"Account validated | Balance: ",
              ToString(rec.validation[1].account[1].balance)>>
       [] site = "L_FRAUD_PENDING" ->
            <<"FRAUD CHECK | Amount: ", ToString(rec.input.amount)>>
       [] site = "L_FRAUD_BLOCKED" ->
            <<"FRAUD DETECTED: ">> \o rec.fraudResult[1].reason \o
            <<" | Risk Score: ", ToString(rec.fraudResult[1].riskScore)>> \o
            (IF def = "v2b" THEN <<" | Payment blocked by PM-configured rule">> ELSE <<>>)
       [] site = "L_FRAUD_SUCCESS" ->
            <<"Fraud check passed | Risk Score: ", ToString(rec.fraudResult[1].riskScore),
              " | ">> \o rec.fraudResult[1].reason
       [] site = "L_DEBIT_PENDING" ->
            <<"Debiting ", ToString(rec.input.amount)>>
       [] site = "L_DEBIT_FAILED" ->
            <<"Debit failed: ", "undefined">>
       [] site = "L_DEBIT_SUCCESS" ->
            <<"Account debited | New balance: ", ToString(rec.debitResult[1].newBalance)>>
       [] site = "L_CREDIT_PENDING" ->
            <<"Crediting ", ToString(rec.input.amount)>>
       [] site = "L_CREDIT_FAILED" ->
            <<"Credit failed: ", "undefined">>
       [] site = "L_CREDIT_SUCCESS" ->
            <<"Account credited | New balance: ", ToString(rec.creditResult[1].newBalance)>>
       [] site = "L_COMPLETED" ->
            <<"Payment completed">>
       [] site = "L_PAYMENT_FAILED" ->
            <<"Payment workflow failed: ">> \o rec.error \o
            (IF def = "v2b"
             THEN <<" | Fraud check status: ",
                    IF rec.fraudCheckResult.performed THEN "completed" ELSE "not reached">>
             ELSE <<>>)

\* the auditData object logAuditEvent builds
AuditEvent(rec) ==
  [workflowId |-> rec.workflowId, workflowVersion |-> AuditVersion(rec.def),
   step |-> AuditStep(rec.pc), status |-> AuditStatus(rec.pc),
   details |-> AuditDetails(rec), actor |-> "TEMPORAL_WORKER"]

\* the workflow code between the return of a logAuditEvent call and the next await
AfterAudit(rec) ==
  LET site == rec.pc
  IN CASE site = "L_CREATE_PENDING"   -> Goto(rec, "CREATE")
       [] site = "L_CREATE_SUCCESS"   -> EnterStep(rec, "VALIDATE_ACCOUNT", "L_VALIDATE_PENDING")
       [] site = "L_VALIDATE_PENDING" -> Goto(rec, "VALIDATE")
       [] site = "L_VALIDATE_FAILED"  -> Goto(rec, "U_VALIDATE_FAILED")
       [] site = "L_VALIDATE_SUCCESS" ->
            IF rec.def = "v1"
            THEN EnterStep(rec, "DEBIT_ACCOUNT", "L_DEBIT_PENDING")
            ELSE EnterStep(rec, "FRAUD_CHECK", "L_FRAUD_PENDING")
       [] site = "L_FRAUD_PENDING"    -> Goto(rec, "FRAUD")
       [] site = "L_FRAUD_BLOCKED"    -> Goto(rec, "U_FRAUD_BLOCKED")
       [] site = "L_FRAUD_SUCCESS"    -> EnterStep(rec, "DEBIT_ACCOUNT", "L_DEBIT_PENDING")
       [] site = "L_DEBIT_PENDING"    -> Goto(rec, "DEBIT")
       [] site = "L_DEBIT_FAILED"     -> Goto(rec, "U_DEBIT_FAILED")
       [] site = "L_DEBIT_SUCCESS"    -> EnterStep(rec, "CREDIT_ACCOUNT", "L_CREDIT_PENDING")
       [] site = "L_CREDIT_PENDING"   -> Goto(rec, "CREDIT")
       [] site = "L_CREDIT_FAILED"    -> Goto(rec, "U_CREDIT_FAILED")
       [] site = "L_CREDIT_SUCCESS"   -> Goto(rec, "U_COMPLETED")
       [] site = "L_COMPLETED"        -> ReturnSuccess(rec)
       [] site = "L_PAYMENT_FAILED"   -> ReturnCaught(rec)

\* the await sites of updatePaymentStatus, with the status and details passed
UpdateSites ==
  {"U_VALIDATE_FAILED", "U_FRAUD_BLOCKED", "U_DEBIT_FAILED", "U_CREDIT_FAILED", "U_COMPLETED"}

\* failure branches that put the record back to PENDING
UpdateStatus_BackToPending(site) ==
  CASE site \in {"U_VALIDATE_FAILED", "U_DEBIT_FAILED", "U_CREDIT_FAILED"} -> "PENDING"
    [] site = "U_FRAUD_BLOCKED" -> "BLOCKED_FRAUD"
    [] site = "U_COMPLETED" -> "COMPLETED"

UpdateStatus(site) ==
  CASE site \in {"U_VALIDATE_FAILED", "U_DEBIT_FAILED", "U_CREDIT_FAILED"} -> "FAILED"
    [] site = "U_FRAUD_BLOCKED" -> "BLOCKED_FRAUD"
    [] site = "U_COMPLETED" -> "COMPLETED"

UpdateDetails(rec) ==
  CASE rec.pc = "U_VALIDATE_FAILED" -> rec.validation[1].reason
    [] rec.pc = "U_FRAUD_BLOCKED" -> <<"Fraud detected: ">> \o rec.fraudResult[1].reason
    [] rec.pc = "U_DEBIT_FAILED" -> <<"Debit failed">>
    [] rec.pc = "U_CREDIT_FAILED" ->
         IF rec.def = "v2a" THEN <<"Credit failed">>
         ELSE <<"Credit failed - compensation required">>
    [] rec.pc = "U_COMPLETED" ->
         CASE rec.def = "v1" ->
                <<"Payment processed successfully via Temporal orchestration">>
           [] rec.def = "v2a" -> <<"v2 payment completed with fraud protection">>
           [] rec.def = "v2b" ->
                <<"Payment processed successfully via v2 workflow with fraud protection">>

\* the validation branch without its return statement
AfterUpdate_FallsThrough(rec) ==
  CASE rec.pc = "U_VALIDATE_FAILED" -> EnterStep(rec, "DEBIT_ACCOUNT", "L_DEBIT_PENDING")
    [] rec.pc = "U_FRAUD_BLOCKED" ->
         ReturnFailure(rec, <<"Fraud check failed: ">> \o rec.fraudResult[1].reason, TRUE)
    [] rec.pc = "U_DEBIT_FAILED" -> ReturnFailure(rec, <<"Account debit failed">>, TRUE)
    [] rec.pc = "U_CREDIT_FAILED" -> ReturnFailure(rec, <<"Account credit failed">>, TRUE)
    [] rec.pc = "U_COMPLETED" -> Goto(rec, "L_COMPLETED")

\* the workflow code after an updatePaymentStatus call has returned
AfterUpdate(rec) ==
  CASE rec.pc = "U_VALIDATE_FAILED" -> ReturnFailure(rec, rec.validation[1].reason, FALSE)
    [] rec.pc = "U_FRAUD_BLOCKED" ->
         ReturnFailure(rec, <<"Fraud check failed: ">> \o rec.fraudResult[1].reason, TRUE)
    [] rec.pc = "U_DEBIT_FAILED" -> ReturnFailure(rec, <<"Account debit failed">>, TRUE)
    [] rec.pc = "U_CREDIT_FAILED" -> ReturnFailure(rec, <<"Account credit failed">>, TRUE)
    [] rec.pc = "U_COMPLETED" -> Goto(rec, "L_COMPLETED")

\* ------------------------------------------------------------------ state
Init ==
  /\ accounts = InitAccounts
  /\ fraudFlags = InitFraudFlags
  /\ payments = <<>>
  /\ auditLogs = EmptyBag
  /\ lost = 0
  /\ faults = 0
  /\ now = 1
  /\ runs = [r \in RunIds |-> IdleRun]

\* an attempt fails for a reason outside the program (network error, timeout)
Fault == faults < MaxFaults /\ faults' = faults + 1
NoFault == faults' = faults

SetRun(r, rec) == runs' = [runs EXCEPT ![r] = rec]

\* if (!fromAccount || !toAccount || !amount) return res.status(400)
MissingFields(fromAccount, toAccount, amount) ==
  fromAccount = "" \/ toAccount = "" \/ amount = 0

\* the routing test with a threshold of 100
UseV2_LowThreshold(amount) == amount >= 100

\* const useV2 = amount >= 1000
UseV2(amount) == amount >= RoutingThreshold

\* the workflow ids the two start endpoints generate
AppsmithWorkflowId(t) == <<"modern-", "v1", "-", "appsmith-", ToString(t)>>
RoutedWorkflowId(useV2, t, rnd) ==
  <<"modern-", IF useV2 THEN "v2" ELSE "v1", "-", ToString(t), rnd>>

\* the state of a run after temporalClient.workflow.start has accepted it
Started(rec, startId, def, fromAccount, toAccount, amount) ==
  [rec EXCEPT !.pc = "scheduled", !.response = "200", !.startId = startId, !.def = def,
              !.input = [fromAccount |-> fromAccount, toAccount |-> toAccount,
                         amount |-> amount]]

\* POST /api/payments/start of index.ts: always modernPaymentV1Workflow
startPayment(r) ==
  /\ runs[r].pc = "idle"
  /\ \E fromAccount \in ReqFrom, toAccount \in ReqTo, amount \in ReqAmount :
       IF MissingFields(fromAccount, toAccount, amount)
       THEN SetRun(r, [runs[r] EXCEPT !.pc = "rejected", !.response = "400"])
       ELSE \/ SetRun(r, Started(runs[r], AppsmithWorkflowId(now), "v1",
                                 fromAccount, toAccount, amount))
            \/ SetRun(r, [runs[r] EXCEPT !.pc = "rejected", !.response = "500"])
  /\ UNCHANGED <<accounts, fraudFlags, payments, auditLogs, lost, faults, now>>

\* POST /api/payments/start of the routing server: v2 for amount >= 1000
startPaymentRouted(r) ==
  /\ runs[r].pc = "idle"
  /\ \E fromAccount \in ReqFrom, toAccount \in ReqTo, amount \in ReqAmount :
       IF MissingFields(fromAccount, toAccount, amount)
       THEN SetRun(r, [runs[r] EXCEPT !.pc = "rejected", !.response = "400"])
       ELSE \/ \E rnd \in RandomSuffixes, def \in Defs :
                 /\ def = "v1" <=> ~UseV2(amount)
                 /\ SetRun(r, Started(runs[r], RoutedWorkflowId(UseV2(amount), now, rnd),
                                      def, fromAccount, toAccount, amount))
            \/ SetRun(r, [runs[r] EXCEPT !.pc = "rejected", !.response = "500"])
  /\ UNCHANGED <<accounts, fraudFlags, payments, auditLogs, lost, faults, now>>

\* the workflow recording CREATE_PAYMENT_REQUEST only once the call has returned
Begin_PushesLate(rec, t) ==
  Goto([rec EXCEPT !.workflowId = InternalWorkflowId(rec.def, t)], "L_CREATE_PENDING")

\* the workflow function from its first line to its first await
Begin(rec, t) ==
  EnterStep([rec EXCEPT !.workflowId = InternalWorkflowId(rec.def, t)],
            "CREATE_PAYMENT_REQUEST", "L_CREATE_PENDING")

\* the worker starts executing the workflow function
WorkflowBegin(r) ==
  /\ runs[r].pc = "scheduled"
  /\ SetRun(r, Begin(runs[r], now))
  /\ UNCHANGED <<accounts, fraudFlags, payments, auditLogs, lost, faults, now>>

\* the run after the logAuditEvent call it awaits has been made and has returned
Logged(rec) == AfterAudit([rec EXCEPT !.emitted = Append(@, AuditEvent(rec))])

\* logAuditEvent rethrowing the failure of its POST, as the other activities do
LogAuditEvent_Rethrows(r) ==
  /\ runs[r].pc \in AuditSites
  /\ LET event == AuditEvent(runs[r])
     IN \/ /\ auditLogs' = auditLogs (+) SetToBag({event}) /\ lost' = lost
           /\ SetRun(r, Logged(runs[r]))
        \/ /\ lost < MaxLost /\ lost' = lost + 1 /\ auditLogs' = auditLogs
           /\ SetRun(r, Throw(runs[r], <<"Audit logging failed: ", "Error">>))
  /\ UNCHANGED <<accounts, fraudFlags, payments, faults, now>>

\* logAuditEvent: the POST is appended or fails; either way the activity returns
LogAuditEvent(r) ==
  /\ runs[r].pc \in AuditSites
  /\ LET event == AuditEvent(runs[r])
     IN /\ \/ auditLogs' = auditLogs (+) SetToBag({event}) /\ lost' = lost
           \/ lost < MaxLost /\ lost' = lost + 1 /\ auditLogs' = auditLogs
        /\ SetRun(r, Logged(runs[r]))
  /\ UNCHANGED <<accounts, fraudFlags, payments, faults, now>>

\* const { paymentId } = await createPaymentRequest(...)
Created(rec, id) == Goto([rec EXCEPT !.paymentId = Some(id)], "L_CREATE_SUCCESS")

\* createPaymentRequest: POST /payment_requests
CreatePaymentRequest(r) ==
  /\ runs[r].pc = "CREATE"
  /\ LET rec == Invoke(runs[r], "createPaymentRequest", "")
         row == NewPaymentRow(rec.input.fromAccount, rec.input.toAccount, rec.input.amount,
                              rec.workflowId, PaymentDescription(rec.def, "description"))
         message == <<"Payment request creation failed: ", "Error">>
     IN \/ /\ NoFault
           /\ payments' = Append(payments, row)
           /\ SetRun(r, Created(rec, Len(payments) + 1))
        \/ /\ Fault
           /\ payments' \in {payments, Append(payments, row)}
           /\ SetRun(r, Throw(rec, message))
  /\ UNCHANGED <<accounts, fraudFlags, auditLogs, lost, now>>

\* the workflow testing that an account was found instead of the verdict
AfterValidate_TestsAccountOnly(rec) ==
  IF rec.validation[1].account = None
  THEN Goto(rec, "L_VALIDATE_FAILED")
  ELSE Goto(rec, "L_VALIDATE_SUCCESS")

\* the workflow code after validateAccount has returned
AfterValidate(rec) ==
  IF ~rec.validation[1].isValid
  THEN Goto(rec, "L_VALIDATE_FAILED")
  ELSE Goto(rec, "L_VALIDATE_SUCCESS")

\* a validateAccount that reserves the amount on the account it accepts
ValidateAccount_ReservesFunds(r) ==
  /\ runs[r].pc = "VALIDATE"
  /\ LET rec == Invoke(runs[r], "validateAccount", "")
         message == <<"Account validation failed: ", "Error">>
         verdict == validateAccount(accounts, rec.input.fromAccount, rec.input.amount)
     IN \/ /\ NoFault
           /\ accounts' = IF verdict.isValid
                          THEN PutAccount(accounts, verdict.account[1],
                                          verdict.account[1].balance - rec.input.amount)
                          ELSE accounts
           /\ SetRun(r, AfterValidate([rec EXCEPT !.validation = Some(verdict)]))
        \/ /\ Fault
           /\ accounts' = accounts
           /\ SetRun(r, Throw(rec, message))
  /\ UNCHANGED <<fraudFlags, payments, auditLogs, lost, now>>

\* validateAccount: GET /accounts
ValidateAccount(r) ==
  /\ runs[r].pc = "VALIDATE"
  /\ LET rec == Invoke(runs[r], "validateAccount", "")
         message == <<"Account validation failed: ", "Error">>
     IN \/ /\ NoFault
           /\ SetRun(r, AfterValidate([rec EXCEPT !.validation =
                  Some(validateAccount(accounts, rec.input.fromAccount, rec.input.amount))]))
        \/ /\ Fault
           /\ SetRun(r, Throw(rec, message))
  /\ UNCHANGED <<accounts, fraudFlags, payments, auditLogs, lost, now>>

\* the workflow code after performFraudCheck without the isBlocked branch
AfterFraudCheck_IgnoresBlock(rec) ==
  LET fraudResult == rec.fraudResult[1]
      rec2 == IF rec.def = "v2b"
              THEN [rec EXCEPT !.fraudCheckResult =
                      [performed |-> TRUE, riskScore |-> fraudResult.riskScore,
                       action |-> IF fraudResult.isBlocked THEN "blocked" ELSE "approved"]]
              ELSE rec
  IN Goto(rec2, "L_FRAUD_SUCCESS")

\* the workflow code after performFraudCheck has returned
AfterFraudCheck(rec) ==
  LET fraudResult == rec.fraudResult[1]
      rec2 == IF rec.def = "v2b"
              THEN [rec EXCEPT !.fraudCheckResult =
                      [performed |-> TRUE, riskScore |-> fraudResult.riskScore,
                       action |-> IF fraudResult.isBlocked THEN "blocked" ELSE "approved"]]
              ELSE rec
  IN IF fraudResult.isBlocked
     THEN Goto(rec2, "L_FRAUD_BLOCKED")
     ELSE Goto(rec2, "L_FRAUD_SUCCESS")

\* performFraudCheck: GET /fraud_flags
PerformFraudCheck(r) ==
  /\ runs[r].pc = "FRAUD"
  /\ LET rec == Invoke(runs[r], "performFraudCheck", "")
         message == <<"Fraud check failed: ", "Error">>
     IN \/ /\ NoFault
           /\ SetRun(r, AfterFraudCheck([rec EXCEPT !.fraudResult =
                  Some(performFraudCheck(fraudFlags, rec.input.fromAccount, rec.input.amount))]))
        \/ /\ Fault
           /\ SetRun(r, Throw(rec, message))
  /\ UNCHANGED <<accounts, fraudFlags, payments, auditLogs, lost, now>>

\* the workflow without its credit step
AfterDebit_SkipsCredit(rec) ==
  IF ~rec.debitResult[1].success
  THEN Goto(rec, "L_DEBIT_FAILED")
  ELSE Goto(rec, "U_COMPLETED")

\* the workflow code after debitAccount has returned
AfterDebit(rec) ==
  IF ~rec.debitResult[1].success
  THEN Goto(rec, "L_DEBIT_FAILED")
  ELSE Goto(rec, "L_DEBIT_SUCCESS")

\* a first v2 definition that returns without marking the payment COMPLETED
AfterCredit_V2aSkipsUpdate(rec) ==
  IF ~rec.creditResult[1].success
  THEN Goto(rec, "L_CREDIT_FAILED")
  ELSE IF rec.def = "v2a" THEN Goto(rec, "L_COMPLETED")
  ELSE Goto(rec, "L_CREDIT_SUCCESS")

\* the workflow code after creditAccount has returned
AfterCredit(rec) ==
  IF ~rec.creditResult[1].success
  THEN Goto(rec, "L_CREDIT_FAILED")
  ELSE Goto(rec, "L_CREDIT_SUCCESS")

\* a balance write that reached the ledger
BalanceWrite(activity, account, newBalance) ==
  [activity |-> activity, accountNumber |-> account.accountNumber,
   read |-> account.balance, written |-> newBalance]

\* first half of an attempt of debitAccount / creditAccount: GET /accounts and find
ReadAccount(r, site, putSite, activity, accountNumber, failed, suffix) ==
  /\ runs[r].pc = site
  /\ LET rec == Invoke(runs[r], activity, "")
         account == FindAccount(accounts, accountNumber)
     IN \/ /\ NoFault
           /\ IF account = None
              THEN SetRun(r, Throw(rec, <<failed, "Error: Account ", accountNumber,
                                          " not found for ", suffix>>))
              ELSE IF account[1].id = ""
              THEN SetRun(r, Throw(rec, <<failed, "Error: Account ", accountNumber,
                                          " missing ID field - cannot update">>))
              ELSE SetRun(r, [rec EXCEPT !.account = account, !.pc = putSite])
        \/ /\ Fault
           /\ SetRun(r, Throw(rec, <<failed, "Error">>))
  /\ UNCHANGED <<accounts, fraudFlags, payments, auditLogs, lost, now>>

\* debitAccount up to the await of axios.put
DebitRead(r) ==
  ReadAccount(r, "DEBIT", "DEBIT_PUT", "debitAccount", runs[r].input.fromAccount,
              "Account debit failed: ", "debit")

\* a debitAccount whose retry reuses the balance the failed attempt had read
DebitWrite_KeepsRead(r) ==
  /\ runs[r].pc = "DEBIT_PUT"
  /\ LET rec == runs[r]
         account == rec.account[1]
         newBalance == DebitNewBalance(account, rec.input.amount)
         written == [rec EXCEPT !.writes = Append(@, BalanceWrite("debitAccount", account, newBalance))]
         message == <<"Account debit failed: ", "Error">>
     IN \/ /\ NoFault
           /\ accounts' = PutAccount(accounts, account, newBalance)
           /\ SetRun(r, AfterDebit([written EXCEPT !.debitResult =
                                      Some([success |-> TRUE, newBalance |-> newBalance])]))
        \/ /\ Fault
           /\ accounts' = accounts
           /\ SetRun(r, Throw(rec, message))
        \/ /\ Fault
           /\ accounts' = PutAccount(accounts, account, newBalance)
           /\ SetRun(r, IF rec.attempt < MaximumAttempts
                        THEN [written EXCEPT !.attempt = @ + 1]
                        ELSE Throw(written, message))
  /\ UNCHANGED <<fraudFlags, payments, auditLogs, lost, now>>

\* debitAccount from axios.put on: the write succeeds, fails, or takes effect and
\* is reported as failed
DebitWrite(r) ==
  /\ runs[r].pc = "DEBIT_PUT"
  /\ LET rec == runs[r]
         account == rec.account[1]
         newBalance == DebitNewBalance(account, rec.input.amount)
         written == [rec EXCEPT !.writes = Append(@, BalanceWrite("debitAccount", account, newBalance))]
         message == <<"Account debit failed: ", "Error">>
     IN \/ /\ NoFault
           /\ accounts' = PutAccount(accounts, account, newBalance)
           /\ SetRun(r, AfterDebit([written EXCEPT !.debitResult =
                                      Some([success |-> TRUE, newBalance |-> newBalance])]))
        \/ /\ Fault
           /\ accounts' = accounts
           /\ SetRun(r, Throw(rec, message))
        \/ /\ Fault
           /\ accounts' = PutAccount(accounts, account, newBalance)
           /\ SetRun(r, Throw(written, message))
  /\ UNCHANGED <<fraudFlags, payments, auditLogs, lost, now>>

\* creditAccount up to the await of axios.put
CreditRead(r) ==
  ReadAccount(r, "CREDIT", "CREDIT_PUT", "creditAccount", runs[r].input.toAccount,
              "Account credit failed: ", "credit")

\* creditAccount from axios.put on
CreditWrite(r) ==
  /\ runs[r].pc = "CREDIT_PUT"
  /\ LET rec == runs[r]
         account == rec.account[1]
         newBalance == CreditNewBalance(account, rec.input.amount)
         written == [rec EXCEPT !.writes = Append(@, BalanceWrite("creditAccount", account, newBalance))]
         message == <<"Account credit failed: ", "Error">>
     IN \/ /\ NoFault
           /\ accounts' = PutAccount(accounts, account, newBalance)
           /\ SetRun(r, AfterCredit([written EXCEPT !.creditResult =
                                       Some([success |-> TRUE, newBalance |-> newBalance])]))
        \/ /\ Fault
           /\ accounts' = accounts
           /\ SetRun(r, Throw(rec, message))
        \/ /\ Fault
           /\ accounts' = PutAccount(accounts, account, newBalance)
           /\ SetRun(r, Throw(written, message))
  /\ UNCHANGED <<fraudFlags, payments, auditLogs, lost, now>>

\* updatePaymentStatus: GET /payment_requests/:id, then PUT with the new status
UpdatePaymentStatus(r) ==
  /\ runs[r].pc \in UpdateSites
  /\ LET rec == Invoke(runs[r], "updatePaymentStatus", UpdateStatus(runs[r].pc))
         id == rec.paymentId[1]
         updated == [payments EXCEPT ![id] =
                       UpdatedPaymentRow(@, UpdateStatus(rec.pc), UpdateDetails(rec))]
         message == <<"Payment status update failed: ", "Error">>
     IN \/ /\ NoFault
           /\ payments' = updated
           /\ SetRun(r, AfterUpdate(rec))
        \/ /\ Fault
           /\ payments' \in {payments, updated}
           /\ SetRun(r, Throw(rec, message))
  /\ UNCHANGED <<accounts, fraudFlags, auditLogs, lost, now>>

\* ---------------------------------------------------------- specification
\* one run at a time
SoloRuns == {1}

Step(r) ==
  \/ startPayment(r)
  \/ startPaymentRouted(r)
  \/ WorkflowBegin(r)
  \/ LogAuditEvent(r)
  \/ CreatePaymentRequest(r)
  \/ ValidateAccount(r)
  \/ PerformFraudCheck(r)
  \/ DebitRead(r)
  \/ DebitWrite(r)
  \/ CreditRead(r)
  \/ CreditWrite(r)
  \/ UpdatePaymentStatus(r)

Next == \E r \in SoloRuns : Step(r)

Spec == Init /\ [][Next]_vars

\* ----------------------------------------------------------------- claims
Done(r) == runs[r].pc = "done"
Result(r) == runs[r].result[1]

\* the run has invoked the activity (with the argument)
Invoked(r, name) == \E i \in 1..Len(runs[r].calls) : runs[r].calls[i].name = name
InvokedWith(r, name, arg) ==
  \E i \in 1..Len(runs[r].calls) : runs[r].calls[i] = [name |-> name, arg |-> arg]

\* the run has emitted an audit event of the step with the status
Emitted(r, step, status) ==
  \E i \in 1..Len(runs[r].emitted) :
    runs[r].emitted[i].step = step /\ runs[r].emitted[i].status = status

\* the await of the activity threw into the catch block of the run
Caught(r, failed) == runs[r].error # <<>> /\ runs[r].error[1] = failed

\* balance of the account the ledger finds under a number
BalanceOf(accts, accountNumber) == FindAccount(accts, accountNumber)[1].balance
Exists(accountNumber) == FindAccount(InitAccounts, accountNumber) # None

\* C1: a failure of updatePaymentStatus does not change the outcome of a run: a
\* finished run that invoked updatePaymentStatus returns what the branch of that
\* call returns when the update succeeds: success exactly for the COMPLETED
\* update, the paymentId of the run, and the error of the branch.
C1_StatusUpdateFailureKeepsOutcome ==
  \A r \in RunIds :
    (Done(r) /\ Invoked(r, "updatePaymentStatus")) =>
      /\ Result(r).success = InvokedWith(r, "updatePaymentStatus", "COMPLETED")
      /\ Result(r).paymentId = runs[r].paymentId
      /\ Result(r).error =
           IF InvokedWith(r, "updatePaymentStatus", "COMPLETED") THEN None
           ELSE IF InvokedWith(r, "updatePaymentStatus", "BLOCKED_FRAUD")
           THEN Some(<<"Fraud check failed: ">> \o runs[r].fraudResult[1].reason)
           ELSE IF ~runs[r].validation[1].isValid
           THEN Some(runs[r].validation[1].reason)
           ELSE IF runs[r].creditResult # None
           THEN Some(<<"Account credit failed">>)
           ELSE Some(<<"Account debit failed">>)

\* C2: when the call of debitAccount or creditAccount fails, the finished run has
\* emitted a FAILED audit event for that step, has issued a payment-status update
\* to FAILED, returns success=false with the steps entered so far, and the
\* payment record is not left PENDING.
C2_LedgerFailureMarksPaymentFailed ==
  \A r \in RunIds :
    \A step \in {"DEBIT_ACCOUNT", "CREDIT_ACCOUNT"} :
      LET failed == IF step = "DEBIT_ACCOUNT" THEN "Account debit failed: "
                    ELSE "Account credit failed: "
      IN (Done(r) /\ Caught(r, failed)) =>
           /\ Emitted(r, step, "FAILED")
           /\ InvokedWith(r, "updatePaymentStatus", "FAILED")
           /\ Result(r).success = FALSE
           /\ Result(r).stepsExecuted = runs[r].stepsExecuted
           /\ payments[runs[r].paymentId[1]].status # "PENDING"

\* C4: once createPaymentRequest has returned a paymentId, the PaymentResult of
\* the run carries that paymentId, whatever fails later.
C4_PaymentIdPersists ==
  \A r \in RunIds :
    (Done(r) /\ runs[r].paymentId # None) => Result(r).paymentId = runs[r].paymentId

\* C5: when validateAccount returned isValid=false, the error of the PaymentResult
\* is exactly the reason validateAccount returned and the FAILED audit event of
\* VALIDATE_ACCOUNT carries that reason, whatever the later audit and
\* payment-status calls do.
C5_ValidationReasonVerbatim ==
  \A r \in RunIds :
    (Done(r) /\ runs[r].validation # None /\ ~runs[r].validation[1].isValid) =>
      /\ Result(r).error = Some(runs[r].validation[1].reason)
      /\ \E i \in 1..Len(runs[r].emitted) :
           /\ runs[r].emitted[i].step = "VALIDATE_ACCOUNT"
           /\ runs[r].emitted[i].status = "FAILED"
           /\ Contains(runs[r].emitted[i].details, runs[r].validation[1].reason)

\* the balance writes of a run that reached the ledger, by activity
WritesOf(r, activity) ==
  {i \in 1..Len(runs[r].writes) : runs[r].writes[i].activity = activity}

\* the credit step failed after the debit step had succeeded, and the run is over
CreditFailedAfterDebit(r) ==
  Done(r) /\ runs[r].debitResult # None /\ Caught(r, "Account credit failed: ")

\* C3 as stated: when the credit call fails after a successful debit, the run
\* returns success=false, the source balance is its pre-run balance minus amount,
\* the destination balance is unchanged, and no write raises the source balance.
C3_CreditFailureLeavesOneDebit ==
  \A r \in RunIds :
    CreditFailedAfterDebit(r) =>
      LET in == runs[r].input
      IN /\ Result(r).success = FALSE
         /\ BalanceOf(accounts, in.fromAccount)
              = BalanceOf(InitAccounts, in.fromAccount) - in.amount
         /\ Exists(in.toAccount) =>
              BalanceOf(accounts, in.toAccount) = BalanceOf(InitAccounts, in.toAccount)
         /\ \A i \in 1..Len(runs[r].writes) :
              ~(/\ runs[r].writes[i].accountNumber = in.fromAccount
                /\ runs[r].writes[i].written > runs[r].writes[i].read)

\* C3 (amended): when the credit step fails after the debit step succeeded, the
\* run returns success=false and compensates nothing: each balance write of the
\* run is a debit attempt writing (balance read - amount) to fromAccount or a
\* credit attempt writing (balance read + amount) to toAccount, no debit write
\* follows a credit write, and with d in 1..3 debit writes and c in 0..3 credit
\* writes that reached the ledger every account ends at its pre-run balance
\* minus d * amount if it is fromAccount plus c * amount if it is toAccount.
C3_NoCompensationAfterCreditFailure ==
  \A r \in RunIds :
    CreditFailedAfterDebit(r) =>
      LET in == runs[r].input
          w == runs[r].writes
          d == Cardinality(WritesOf(r, "debitAccount"))
          c == Cardinality(WritesOf(r, "creditAccount"))
      IN /\ Result(r).success = FALSE
         /\ \A i \in 1..Len(w) :
              \/ /\ w[i].activity = "debitAccount"
                 /\ w[i].accountNumber = in.fromAccount
                 /\ w[i].written = w[i].read - in.amount
              \/ /\ w[i].activity = "creditAccount"
                 /\ w[i].accountNumber = in.toAccount
                 /\ w[i].written = w[i].read + in.amount
         /\ \A i \in WritesOf(r, "creditAccount"), j \in WritesOf(r, "debitAccount") : j < i
         /\ d \in 1..MaximumAttempts
         /\ c \in 0..MaximumAttempts
         /\ \A i \in 1..Len(accounts) :
              accounts[i].balance =
                InitAccounts[i].balance
                - (IF accounts[i].accountNumber = in.fromAccount THEN d * in.amount ELSE 0)
                + (IF accounts[i].accountNumber = in.toAccount THEN c * in.amount ELSE 0)

\* a run whose credit step failed after a debit, one of whose debit attempts
\* took effect without being reported
C3_Witness ==
  \E r \in RunIds :
    CreditFailedAfterDebit(r) /\ Cardinality(WritesOf(r, "debitAccount")) = 2

\* the first three chunks of a workflow id: "modern-v1-" / "modern-v2-"
HasPrefix(id, version) == Len(id) >= 3 /\ SubSeq(id, 1, 3) = <<"modern-", version, "-">>

\* C6: for every accepted request, amount >= 1000 starts the v2 workflow under an
\* id with prefix "modern-v2-" and amount < 1000 starts the v1 workflow under an
\* id with prefix "modern-v1-".
C6_VariantSelection ==
  \A r \in RunIds :
    runs[r].response = "200" =>
      IF runs[r].input.amount >= 1000
      THEN runs[r].def \in {"v2a", "v2b"} /\ HasPrefix(runs[r].startId, "v2")
      ELSE runs[r].def = "v1" /\ HasPrefix(runs[r].startId, "v1")

\* C7: a request with amount < 1000 is a v1 run, performFraudCheck is never
\* invoked in it, and FRAUD_CHECK never appears in its stepsExecuted, at any
\* point and in the result of any path.
C7_SmallAmountsSkipFraudCheck ==
  \A r \in RunIds :
    (runs[r].response = "200" /\ runs[r].input.amount < 1000) =>
      /\ runs[r].def = "v1"
      /\ ~Invoked(r, "performFraudCheck")
      /\ runs[r].pc # "FRAUD"
      /\ \A i \in 1..Len(runs[r].stepsExecuted) : runs[r].stepsExecuted[i] # "FRAUD_CHECK"
      /\ Done(r) =>
           \A i \in 1..Len(Result(r).stepsExecuted) :
             Result(r).stepsExecuted[i] # "FRAUD_CHECK"

\* a finished run for an amount below the threshold that entered the debit step
C7_Witness ==
  \E r \in RunIds :
    /\ Done(r)
    /\ runs[r].input.amount < 1000
    /\ Invoked(r, "debitAccount")

\* C8: in a v2 run debitAccount is invoked only after performFraudCheck returned
\* isBlocked=false, and wherever DEBIT_ACCOUNT is in stepsExecuted FRAUD_CHECK
\* is earlier in it.
C8_FraudCheckBeforeDebit ==
  \A r \in RunIds :
    runs[r].def \in {"v2a", "v2b"} =>
      /\ (Invoked(r, "debitAccount") \/ runs[r].pc \in {"DEBIT", "DEBIT_PUT"}) =>
           /\ runs[r].fraudResult # None
           /\ ~runs[r].fraudResult[1].isBlocked
           /\ Invoked(r, "performFraudCheck")
      /\ \A j \in 1..Len(runs[r].calls) :
           runs[r].calls[j].name = "debitAccount" =>
             \E i \in 1..(j - 1) : runs[r].calls[i].name = "performFraudCheck"
      /\ \A j \in 1..Len(runs[r].stepsExecuted) :
           runs[r].stepsExecuted[j] = "DEBIT_ACCOUNT" =>
             \E i \in 1..(j - 1) : runs[r].stepsExecuted[i] = "FRAUD_CHECK"

\* a v2 run that has invoked debitAccount
C8_Witness ==
  \E r \in RunIds :
    /\ runs[r].def \in {"v2a", "v2b"}
    /\ Invoked(r, "debitAccount")
    /\ runs[r].input.amount >= 1000

\* the canonical order of the steps of a variant
CanonicalSteps(def) ==
  CASE def = "v1" -> <<"CREATE_PAYMENT_REQUEST", "VALIDATE_ACCOUNT", "DEBIT_ACCOUNT",
                       "CREDIT_ACCOUNT", "COMPLETE">>
    [] def \in {"v2a", "v2b"} ->
         <<"CREATE_PAYMENT_REQUEST", "VALIDATE_ACCOUNT", "FRAUD_CHECK", "DEBIT_ACCOUNT",
           "CREDIT_ACCOUNT", "COMPLETE">>
    [] OTHER -> <<"COMPLETE">>

StrictPrefix(s, t) == Len(s) < Len(t) /\ s = SubSeq(t, 1, Len(s))

\* the run has failed or was blocked: it is in a failure branch or the catch
\* block, or has returned success=false
FailedOrBlocked(r) ==
  \/ runs[r].pc \in {"L_VALIDATE_FAILED", "U_VALIDATE_FAILED", "L_FRAUD_BLOCKED",
                     "U_FRAUD_BLOCKED", "L_DEBIT_FAILED", "U_DEBIT_FAILED",
                     "L_CREDIT_FAILED", "U_CREDIT_FAILED", "L_PAYMENT_FAILED"}
  \/ Done(r) /\ ~Result(r).success

\* C9: at every point of a run stepsExecuted (and the stepsExecuted of its
\* result) is a strict prefix of the canonical order of its variant, so no step
\* appears twice; and no step is appended once the run has failed or was blocked.
C9_StepsArePrefixOfCanonicalOrder ==
  /\ [](\A r \in RunIds :
          /\ StrictPrefix(runs[r].stepsExecuted, CanonicalSteps(runs[r].def))
          /\ \A i, j \in 1..Len(runs[r].stepsExecuted) :
               runs[r].stepsExecuted[i] = runs[r].stepsExecuted[j] => i = j
          /\ Done(r) => Result(r).stepsExecuted = runs[r].stepsExecuted)
  /\ [][\A r \in RunIds :
          FailedOrBlocked(r) => runs'[r].stepsExecuted = runs[r].stepsExecuted]_vars

\* a run that failed in the catch block after it had entered the credit step
C9_Witness ==
  \E r \in RunIds :
    /\ Done(r)
    /\ ~Result(r).success
    /\ Len(runs[r].stepsExecuted) >= 4

\* ------------------------------------------- validateAccount on any ledger
\* the ledgers GET /accounts may answer with: up to MaxLedger rows, ids by position
LedgerRows ==
  [accountNumber : {"ACC1", "ACC2"}, balance : {0, 500, 1000},
   status : {"ACTIVE", "FROZEN"}]

Ledgers ==
  UNION {[1..n -> LedgerRows] : n \in 0..MaxLedger}

WithIds(rows) ==
  [i \in 1..Len(rows) |->
     [id |-> ToString(i), accountNumber |-> rows[i].accountNumber,
      balance |-> rows[i].balance, status |-> rows[i].status]]

\* a v1 run started by the endpoint of index.ts, at its await of validateAccount
AtValidate(fromAccount, toAccount, amount) ==
  LET started == Started(IdleRun, AppsmithWorkflowId(1), "v1", fromAccount, toAccount, amount)
      pending == Logged(Begin(started, 1))
      created == Created(Invoke(pending, "createPaymentRequest", ""), 1)
  IN Logged(Logged(created))

InitValidate ==
  \E rows \in Ledgers, fromAccount \in {"ACC1", "ACC2"}, amount \in {500, 1000} :
    LET rec == AtValidate(fromAccount, "ACC9", amount)
    IN /\ accounts = WithIds(rows)
       /\ fraudFlags = InitFraudFlags
       /\ payments = <<NewPaymentRow(fromAccount, "ACC9", amount, rec.workflowId,
                                     PaymentDescription("v1", "description"))>>
       /\ auditLogs = BagOf(rec.emitted)
       /\ lost = 0
       /\ faults = 0
       /\ now = 1
       /\ runs = [r \in RunIds |-> IF r = 1 THEN rec ELSE IdleRun]

NextValidate == ValidateAccount(1)

SpecValidate == InitValidate /\ [][NextValidate]_vars

\* C10: validateAccount returns isValid=false exactly when no account has the
\* number, or the account found is not ACTIVE, or its balance < amount, checked
\* in that order with the reasons "... not found", "... is <status>",
\* "Insufficient funds ..."; it returns isValid=true for an ACTIVE account with
\* balance >= amount, balance = amount included.
C10_ValidateAccountVerdict ==
  \A r \in RunIds :
    runs[r].validation # None =>
      LET v == runs[r].validation[1]
          number == runs[r].input.fromAccount
          amount == runs[r].input.amount
          rows == {i \in 1..Len(accounts) : accounts[i].accountNumber = number}
          first == CHOOSE i \in rows : \A j \in rows : i <= j
      IN IF rows = {}
         THEN ~v.isValid /\ v.reason = <<"Account ", number, " not found">>
         ELSE IF accounts[first].status # "ACTIVE"
         THEN ~v.isValid /\ v.reason = <<"Account ", number, " is ", accounts[first].status>>
         ELSE IF accounts[first].balance < amount
         THEN ~v.isValid /\ v.reason[1] = "Insufficient funds. Balance: "
         ELSE v.isValid /\ accounts[first].balance >= amount

\* validateAccount accepted an ACTIVE account whose balance equals the amount
C10_Witness ==
  \E r \in RunIds :
    /\ runs[r].validation # None
    /\ runs[r].validation[1].isValid
    /\ runs[r].validation[1].account[1].balance = runs[r].input.amount

\* ------------------------------------------------------- claims C11 - C20
\* validateAccount returned isValid=false in the run
ValidationFailed(r) ==
  runs[r].validation # None /\ ~runs[r].validation[1].isValid

\* what C11 says of a finished run whose validation failed, the payment record apart
ValidationFailureEndsRun(r) ==
  /\ Result(r).success = FALSE
  /\ Result(r).stepsExecuted = <<"CREATE_PAYMENT_REQUEST", "VALIDATE_ACCOUNT">>
  /\ ~Invoked(r, "performFraudCheck")
  /\ ~Invoked(r, "debitAccount")
  /\ ~Invoked(r, "creditAccount")
  /\ runs[r].writes = <<>>

\* C11 as stated: when validation fails the run ends with success=false,
\* stepsExecuted = [CREATE_PAYMENT_REQUEST, VALIDATE_ACCOUNT], the payment record
\* updated to FAILED, and no fraud check, debit or credit invoked.
C11_ValidationFailureUpdatesRecord ==
  \A r \in RunIds :
    (Done(r) /\ ValidationFailed(r)) =>
      /\ ValidationFailureEndsRun(r)
      /\ payments[runs[r].paymentId[1]].status = "FAILED"

\* C11 (amended): when validation fails the run ends with success=false,
\* stepsExecuted = [CREATE_PAYMENT_REQUEST, VALIDATE_ACCOUNT], no fraud check,
\* debit or credit invoked, and updatePaymentStatus invoked with FAILED; the
\* payment record is FAILED if that call returned, and FAILED or still PENDING
\* if all its attempts failed.
C11_ValidationFailureEndsRun ==
  \A r \in RunIds :
    (Done(r) /\ ValidationFailed(r)) =>
      /\ ValidationFailureEndsRun(r)
      /\ InvokedWith(r, "updatePaymentStatus", "FAILED")
      /\ payments[runs[r].paymentId[1]].status \in {"FAILED", "PENDING"}
      /\ ~Caught(r, "Payment status update failed: ") =>
           payments[runs[r].paymentId[1]].status = "FAILED"

\* a finished run whose validation failed for insufficient funds and whose
\* status update returned
C11_Witness ==
  \E r \in RunIds :
    /\ Done(r)
    /\ ValidationFailed(r)
    /\ runs[r].validation[1].reason[1] = "Insufficient funds. Balance: "
    /\ ~Caught(r, "Payment status update failed: ")

\* ---------------------------------------------- performFraudCheck as a function
\* the rows GET /fraud_flags may answer with: scores at and around the block
\* score, before and after the large-amount addition
FlagRows ==
  [accountId : {"ACC1", "ACC2"}, riskScore : {60, 61, 80, 81},
   isBlocked : BOOLEAN, reason : {"velocity"}]

\* the answers of GET /fraud_flags: up to MaxFlags rows, in the order answered
FlagLists ==
  UNION {[1..n -> FlagRows] : n \in 0..MaxFlags}

\* a v2 run started by the routing endpoint, at its await of performFraudCheck
AtFraudCheck(def, fromAccount, toAccount, amount) ==
  LET started == Started(IdleRun, RoutedWorkflowId(TRUE, 1, "7"), def,
                         fromAccount, toAccount, amount)
      pending == Logged(Begin(started, 1))
      created == Logged(Logged(Created(Invoke(pending, "createPaymentRequest", ""), 1)))
      validated == AfterValidate([Invoke(created, "validateAccount", "") EXCEPT
                      !.validation = Some(validateAccount(InitAccounts, fromAccount, amount))])
  IN Logged(Logged(validated))

InitFraud ==
  \E flags \in FlagLists, def \in {"v2a", "v2b"}, amount \in {1000, 10000, 10001} :
    LET rec == AtFraudCheck(def, "ACC2", "ACC9", amount)
    IN /\ accounts = InitAccounts
       /\ fraudFlags = flags
       /\ payments = <<NewPaymentRow("ACC2", "ACC9", amount, rec.workflowId,
                                     PaymentDescription(def, "description"))>>
       /\ auditLogs = BagOf(rec.emitted)
       /\ lost = 0
       /\ faults = 0
       /\ now = 1
       /\ runs = [r \in RunIds |-> IF r = 1 THEN rec ELSE IdleRun]

NextFraud == PerformFraudCheck(1)

SpecFraud == InitFraud /\ [][NextFraud]_vars

\* C12: performFraudCheck returns riskScore 10 and isBlocked=false when the
\* account has no fraud record, for every amount; otherwise riskScore is the
\* stored score + 20 when amount > 10000 and the stored score when
\* amount <= 10000 (10000 itself adds nothing), and isBlocked is the stored
\* isBlocked OR riskScore > 80 (80 itself does not block). The stored record
\* is the first row answered for the account.
C12_FraudCheckVerdict ==
  \A r \in RunIds :
    runs[r].fraudResult # None =>
      LET f == runs[r].fraudResult[1]
          number == runs[r].input.fromAccount
          amount == runs[r].input.amount
          rows == {i \in 1..Len(fraudFlags) : fraudFlags[i].accountId = number}
          first == CHOOSE i \in rows : \A j \in rows : i <= j
          stored == fraudFlags[first]
      IN IF rows = {}
         THEN f.riskScore = 10 /\ ~f.isBlocked
         ELSE /\ amount > 10000 => f.riskScore = stored.riskScore + 20
              /\ amount <= 10000 => f.riskScore = stored.riskScore
              /\ f.isBlocked <=> (stored.isBlocked \/ f.riskScore > 80)
              /\ (f.riskScore = 80 /\ ~stored.isBlocked) => ~f.isBlocked

\* a stored score of 60 raised to exactly 80 by an amount above 10000 passes,
\* with another account's blocked row answered first
C12_Witness ==
  \E r \in RunIds :
    /\ runs[r].fraudResult # None
    /\ runs[r].input.amount = 10001
    /\ runs[r].fraudResult[1].riskScore = 80
    /\ ~runs[r].fraudResult[1].isBlocked
    /\ Len(fraudFlags) = 2
    /\ fraudFlags[1].accountId # runs[r].input.fromAccount
    /\ fraudFlags[1].isBlocked

\* performFraudCheck returned isBlocked=true in the run
FraudBlocked(r) ==
  runs[r].fraudResult # None /\ runs[r].fraudResult[1].isBlocked

\* the text of an error of a result names the fraud check
MentionsFraud(error) ==
  /\ error # None
  /\ \E i \in 1..Len(error[1]) :
       error[1][i] \in {"Fraud check failed: ", "High risk detected: "}

\* C13: when performFraudCheck returns isBlocked=true in a v2 run, the run emits
\* a BLOCKED audit event for FRAUD_CHECK, updates the payment record to
\* BLOCKED_FRAUD, returns success=false with an error that mentions fraud and
\* stepsExecuted = [CREATE_PAYMENT_REQUEST, VALIDATE_ACCOUNT, FRAUD_CHECK], and
\* never invokes debitAccount or creditAccount.
C13_FraudBlockEndsRun ==
  \A r \in RunIds :
    (Done(r) /\ runs[r].def \in {"v2a", "v2b"} /\ FraudBlocked(r)) =>
      /\ Emitted(r, "FRAUD_CHECK", "BLOCKED")
      /\ payments[runs[r].paymentId[1]].status = "BLOCKED_FRAUD"
      /\ Result(r).success = FALSE
      /\ MentionsFraud(Result(r).error)
      /\ Result(r).stepsExecuted =
           <<"CREATE_PAYMENT_REQUEST", "VALIDATE_ACCOUNT", "FRAUD_CHECK">>
      /\ ~Invoked(r, "debitAccount")
      /\ ~Invoked(r, "creditAccount")

\* the audit events the runs have handed to logAuditEvent so far
EmittedCount == Len(runs[1].emitted) + Len(runs[2].emitted)

\* C14: loss of audit events never fails or alters a run. A call of
\* logAuditEvent whose POST fails leaves the run, the ledger, the fraud flags
\* and the payment records exactly as the call whose POST is appended leaves
\* them, neither throwing into the catch block nor being retried; the only
\* difference is the row missing from the audit sink. As no other step reads
\* the audit sink, executions that differ only in lost appends end with the
\* same PaymentResult, balances and payment status.
C14_AuditLossNeverAltersRun ==
  /\ [](lost + BagCardinality(auditLogs) = EmittedCount)
  /\ [][\A r \in RunIds :
          (runs[r].pc \in AuditSites /\ runs'[r] # runs[r]) =>
            /\ runs'[r] = Logged(runs[r])
            /\ runs'[r].error = runs[r].error
            /\ runs'[r].paymentId = runs[r].paymentId
            /\ runs'[r].attempt = 1
            /\ runs'[r].pc # runs[r].pc
            /\ accounts' = accounts
            /\ fraudFlags' = fraudFlags
            /\ payments' = payments
            /\ faults' = faults
            /\ \/ auditLogs' = auditLogs (+) SetToBag({AuditEvent(runs[r])}) /\ lost' = lost
               \/ auditLogs' = auditLogs /\ lost' = lost + 1]_vars

\* a run that lost an audit append and still completed the payment
C14_Witness ==
  \E r \in RunIds :
    /\ Done(r)
    /\ lost > 0
    /\ BagCardinality(auditLogs) < Len(runs[r].emitted)
    /\ Result(r).success
    /\ payments[runs[r].paymentId[1]].status = "COMPLETED"

\* the (step, status) pairs of the audit events a run has emitted, in order
EmittedPairs(r) ==
  [i \in 1..Len(runs[r].emitted) |->
     <<runs[r].emitted[i].step, runs[r].emitted[i].status>>]

\* the audit events of a run in which every step succeeds
CanonicalEvents(def) ==
  << <<"CREATE_PAYMENT_REQUEST", "PENDING">>, <<"CREATE_PAYMENT_REQUEST", "SUCCESS">>,
     <<"VALIDATE_ACCOUNT", "PENDING">>, <<"VALIDATE_ACCOUNT", "SUCCESS">> >>
  \o (IF def = "v1" THEN <<>>
      ELSE << <<"FRAUD_CHECK", "PENDING">>, <<"FRAUD_CHECK", "SUCCESS">> >>)
  \o << <<"DEBIT_ACCOUNT", "PENDING">>, <<"DEBIT_ACCOUNT", "SUCCESS">>,
        <<"CREDIT_ACCOUNT", "PENDING">>, <<"CREDIT_ACCOUNT", "SUCCESS">>,
        <<"PAYMENT_COMPLETED", "SUCCESS">> >>

\* s is a prefix of t, or such a prefix ended by one FAILED or BLOCKED event
PrefixWithOneEnd(s, t) ==
  \/ Len(s) <= Len(t) /\ s = SubSeq(t, 1, Len(s))
  \/ /\ Len(s) >= 1
     /\ Len(s) - 1 <= Len(t)
     /\ SubSeq(s, 1, Len(s) - 1) = SubSeq(t, 1, Len(s) - 1)
     /\ s[Len(s)][2] \in {"FAILED", "BLOCKED"}

\* C15: the audit events a run emits are in strict step order: a prefix of
\* PENDING, SUCCESS of CREATE_PAYMENT_REQUEST, of VALIDATE_ACCOUNT, of
\* FRAUD_CHECK in v2, of DEBIT_ACCOUNT, of CREDIT_ACCOUNT, then
\* SUCCESS(PAYMENT_COMPLETED), optionally ended by one FAILED or BLOCKED event.
C15_AuditEventsInStepOrder ==
  \A r \in RunIds :
    runs[r].def \in Defs => PrefixWithOneEnd(EmittedPairs(r), CanonicalEvents(runs[r].def))

\* the event statuses that close a step
TerminalStatuses == {"SUCCESS", "FAILED", "BLOCKED"}

\* C16: every step of a run, COMPLETE included, is wrapped by audit events: a
\* PENDING event of the step is emitted before the step's external call, and a
\* SUCCESS, FAILED or BLOCKED event of the same step name after the call has
\* returned or failed; no SUCCESS, FAILED or BLOCKED event is emitted for a step
\* name without an earlier PENDING event of the run.
C16_StepsWrappedByAuditEvents ==
  \A r \in RunIds :
    /\ \A i \in 1..Len(runs[r].emitted) :
         runs[r].emitted[i].status \in TerminalStatuses =>
           \E j \in 1..(i - 1) :
             /\ runs[r].emitted[j].step = runs[r].emitted[i].step
             /\ runs[r].emitted[j].status = "PENDING"
    /\ InvokedWith(r, "updatePaymentStatus", "COMPLETED") =>
         Emitted(r, "PAYMENT_COMPLETED", "PENDING")
    /\ Done(r) =>
         \A k \in 1..Len(Result(r).stepsExecuted) :
           /\ Emitted(r, Result(r).stepsExecuted[k], "PENDING")
           /\ \E status \in TerminalStatuses :
                Emitted(r, Result(r).stepsExecuted[k], status)

\* the run returned success=true and each of its balance writes reached the
\* ledger once
SucceededWithSingleWrites(r) ==
  /\ Done(r)
  /\ Result(r).success
  /\ Cardinality(WritesOf(r, "debitAccount")) = 1
  /\ Cardinality(WritesOf(r, "creditAccount")) = 1

\* stepsExecuted of a successful run of the variant
SuccessSteps(def) == SubSeq(CanonicalSteps(def), 1, Len(CanonicalSteps(def)) - 1)

\* the ledger rows of the accounts the run does not name are as before the run
OtherAccountsUnchanged(r) ==
  \A i \in 1..Len(accounts) :
    accounts[i].accountNumber \notin {runs[r].input.fromAccount, runs[r].input.toAccount}
      => accounts[i] = InitAccounts[i]

\* C17 as stated: after a run that returns success=true, alone on its accounts
\* and with each activity executed once, the source balance is its balance
\* before minus amount, the destination balance its balance before plus amount,
\* stepsExecuted = [CREATE_PAYMENT_REQUEST, VALIDATE_ACCOUNT, (FRAUD_CHECK,)
\* DEBIT_ACCOUNT, CREDIT_ACCOUNT], and no other balance has changed.
C17_SuccessMovesAmount ==
  \A r \in RunIds :
    SucceededWithSingleWrites(r) =>
      LET in == runs[r].input
      IN /\ BalanceOf(accounts, in.fromAccount)
              = BalanceOf(InitAccounts, in.fromAccount) - in.amount
         /\ BalanceOf(accounts, in.toAccount)
              = BalanceOf(InitAccounts, in.toAccount) + in.amount
         /\ Result(r).stepsExecuted = SuccessSteps(runs[r].def)
         /\ OtherAccountsUnchanged(r)

\* C17 (amended): after such a run with fromAccount different from toAccount
\* the source balance is its balance before minus amount and the destination
\* balance its balance before plus amount; with fromAccount = toAccount the
\* balance of that account is its balance before. In both cases stepsExecuted =
\* [CREATE_PAYMENT_REQUEST, VALIDATE_ACCOUNT, (FRAUD_CHECK,) DEBIT_ACCOUNT,
\* CREDIT_ACCOUNT] and no other balance has changed.
C17_SuccessMovesAmountBetweenDistinctAccounts ==
  \A r \in RunIds :
    SucceededWithSingleWrites(r) =>
      LET in == runs[r].input
      IN /\ in.fromAccount # in.toAccount =>
              /\ BalanceOf(accounts, in.fromAccount)
                   = BalanceOf(InitAccounts, in.fromAccount) - in.amount
              /\ BalanceOf(accounts, in.toAccount)
                   = BalanceOf(InitAccounts, in.toAccount) + in.amount
         /\ in.fromAccount = in.toAccount =>
              BalanceOf(accounts, in.fromAccount) = BalanceOf(InitAccounts, in.fromAccount)
         /\ Result(r).stepsExecuted = SuccessSteps(runs[r].def)
         /\ OtherAccountsUnchanged(r)

\* a v2 run without any failed attempt that moved a positive amount between
\* two accounts
C17_Witness ==
  \E r \in RunIds :
    /\ SucceededWithSingleWrites(r)
    /\ faults = 0
    /\ runs[r].def \in {"v2a", "v2b"}
    /\ runs[r].input.fromAccount # runs[r].input.toAccount
    /\ runs[r].input.amount > 0
    /\ Len(Result(r).stepsExecuted) = 5

\* the activity calls of a successful run of the variant, in order
SuccessCalls(def) ==
  << [name |-> "createPaymentRequest", arg |-> ""],
     [name |-> "validateAccount", arg |-> ""] >>
  \o (IF def = "v1" THEN <<>> ELSE << [name |-> "performFraudCheck", arg |-> ""] >>)
  \o << [name |-> "debitAccount", arg |-> ""],
        [name |-> "creditAccount", arg |-> ""],
        [name |-> "updatePaymentStatus", arg |-> "COMPLETED"] >>

\* both balance activities of the run have returned success
DebitAndCreditSucceeded(r) ==
  /\ runs[r].debitResult # None
  /\ runs[r].debitResult[1].success
  /\ runs[r].creditResult # None
  /\ runs[r].creditResult[1].success

\* C18: a run returns success=true only after validation passed, the fraud
\* check passed (v2), debit and credit succeeded and the payment record was
\* updated to COMPLETED, in this order; and a payment record is COMPLETED only
\* if it is the record of a run whose debitAccount and creditAccount both
\* returned success.
C18_SuccessOnlyAfterAllSteps ==
  /\ \A r \in RunIds :
       (Done(r) /\ Result(r).success) =>
         /\ runs[r].validation # None /\ runs[r].validation[1].isValid
         /\ runs[r].def # "v1" =>
              runs[r].fraudResult # None /\ ~runs[r].fraudResult[1].isBlocked
         /\ DebitAndCreditSucceeded(r)
         /\ runs[r].calls = SuccessCalls(runs[r].def)
         /\ payments[runs[r].paymentId[1]].status = "COMPLETED"
  /\ \A i \in 1..Len(payments) :
       payments[i].status = "COMPLETED" =>
         \E r \in RunIds :
           /\ runs[r].paymentId = Some(i)
           /\ DebitAndCreditSucceeded(r)
           /\ InvokedWith(r, "updatePaymentStatus", "COMPLETED")

\* a v2 run that returned success=true after a retried attempt, its record
\* COMPLETED
C18_Witness ==
  \E r \in RunIds :
    /\ Done(r)
    /\ runs[r].def # "v1"
    /\ Result(r).success
    /\ faults > 0
    /\ payments[runs[r].paymentId[1]].status = "COMPLETED"

\* C19: if the createPaymentRequest call errors the whole run aborts: the
\* result has success=false, no paymentId, stepsExecuted =
\* [CREATE_PAYMENT_REQUEST], and the run makes no account lookup, fraud lookup,
\* balance write or payment-status update.
C19_CreateFailureAbortsRun ==
  \A r \in RunIds :
    (Done(r) /\ Caught(r, "Payment request creation failed: ")) =>
      /\ Result(r).success = FALSE
      /\ Result(r).paymentId = None
      /\ Result(r).stepsExecuted = <<"CREATE_PAYMENT_REQUEST">>
      /\ runs[r].calls = << [name |-> "createPaymentRequest", arg |-> ""] >>
      /\ runs[r].validation = None
      /\ runs[r].fraudResult = None
      /\ runs[r].writes = <<>>
      /\ accounts = InitAccounts
      /\ \A i \in 1..Len(payments) : payments[i].status = "PENDING"

\* a finished run whose createPaymentRequest failed on every attempt, one of
\* them after its row had been posted
C19_Witness ==
  \E r \in RunIds :
    /\ Done(r)
    /\ Caught(r, "Payment request creation failed: ")
    /\ faults = MaximumAttempts
    /\ Len(payments) > 0

\* the step of the workflow an activity call belongs to
StepOfCall(call) ==
  CASE call.name = "createPaymentRequest" -> "CREATE_PAYMENT_REQUEST"
    [] call.name = "validateAccount" -> "VALIDATE_ACCOUNT"
    [] call.name = "performFraudCheck" -> "FRAUD_CHECK"
    [] call.name = "debitAccount" -> "DEBIT_ACCOUNT"
    [] call.name = "creditAccount" -> "CREDIT_ACCOUNT"
    [] call.name = "updatePaymentStatus" /\ call.arg = "FAILED" -> "VALIDATE_ACCOUNT"
    [] call.name = "updatePaymentStatus" /\ call.arg = "BLOCKED_FRAUD" -> "FRAUD_CHECK"
    [] call.name = "updatePaymentStatus" /\ call.arg = "COMPLETED" -> "COMPLETE"

\* the FAILED audit events of the run whose details carry the message
FailedEventsCarrying(r, message) ==
  {i \in 1..Len(runs[r].emitted) :
     /\ runs[r].emitted[i].status = "FAILED"
     /\ Contains(runs[r].emitted[i].details, message)}

\* C20: an error thrown by a gateway call at any step is caught once at the top
\* level of the run: the run emits exactly one FAILED audit event carrying the
\* error's message, returns success=false with that message as error and with
\* stepsExecuted ending in the step whose call threw, and executes no further
\* step: the call that threw is the last call of the run.
C20_ThrownErrorCaughtOnce ==
  \A r \in RunIds :
    (Done(r) /\ runs[r].error # <<>>) =>
      LET steps == Result(r).stepsExecuted
          thrown == runs[r].calls[Len(runs[r].calls)]
      IN /\ Cardinality(FailedEventsCarrying(r, runs[r].error)) = 1
         /\ runs[r].emitted[Len(runs[r].emitted)].status = "FAILED"
         /\ Result(r).success = FALSE
         /\ Result(r).error = Some(runs[r].error)
         /\ steps = runs[r].stepsExecuted
         /\ steps[Len(steps)] = StepOfCall(thrown)

\* ------------------------------------------------------- claims C21 - C30
\* C21: in every PaymentResult a v1 or v2 run returns, the error field is
\* present if and only if success=false.
C21_ErrorIffFailure ==
  \A r \in RunIds :
    Done(r) => (Result(r).error # None <=> ~Result(r).success)

\* a run that returned from the validation failure branch, with its error
C21_Witness ==
  \E r \in RunIds :
    /\ Done(r)
    /\ ValidationFailed(r)
    /\ runs[r].error = <<>>
    /\ ~Result(r).success
    /\ Result(r).error = Some(runs[r].validation[1].reason)

\* ------------------------------------------------- termination of a run
\* the worker keeps executing a started run and every gateway call returns or
\* fails: a step that stays possible is eventually taken
SpecLive == Spec /\ WF_vars(Next)

\* the await sites of a workflow in program order; the failure branch of a
\* step precedes its continuation, the catch block comes last
ProgramOrder ==
  <<"idle", "scheduled", "L_CREATE_PENDING", "CREATE", "L_CREATE_SUCCESS",
    "L_VALIDATE_PENDING", "VALIDATE", "L_VALIDATE_FAILED", "U_VALIDATE_FAILED",
    "L_VALIDATE_SUCCESS", "L_FRAUD_PENDING", "FRAUD", "L_FRAUD_BLOCKED",
    "U_FRAUD_BLOCKED", "L_FRAUD_SUCCESS", "L_DEBIT_PENDING", "DEBIT", "DEBIT_PUT",
    "L_DEBIT_FAILED", "U_DEBIT_FAILED", "L_DEBIT_SUCCESS", "L_CREDIT_PENDING",
    "CREDIT", "CREDIT_PUT", "L_CREDIT_FAILED", "U_CREDIT_FAILED", "L_CREDIT_SUCCESS",
    "U_COMPLETED", "L_COMPLETED", "L_PAYMENT_FAILED", "done", "rejected">>

\* position of an await site in program order
SiteIndex(site) == CHOOSE i \in 1..Len(ProgramOrder) : ProgramOrder[i] = site

\* the two halves of debitAccount and of creditAccount are one await
AwaitIndex(site) ==
  CASE site = "DEBIT_PUT" -> SiteIndex("DEBIT")
    [] site = "CREDIT_PUT" -> SiteIndex("CREDIT")
    [] OTHER -> SiteIndex(site)

\* a step of the run moves it forward: to a later await, to the next attempt
\* of the same await, or from the read to the write of the same attempt
MovesForward(old, new) ==
  \/ AwaitIndex(new.pc) > AwaitIndex(old.pc)
  \/ AwaitIndex(new.pc) = AwaitIndex(old.pc) /\ new.attempt > old.attempt
  \/ /\ AwaitIndex(new.pc) = AwaitIndex(old.pc)
     /\ new.attempt = old.attempt
     /\ SiteIndex(new.pc) > SiteIndex(old.pc)

\* C22: every started run eventually terminates and produces exactly one
\* PaymentResult, provided every gateway call eventually returns or fails. The
\* state machine has no loop: every step of a run moves it forward in program
\* order or to the next of at most maximumAttempts attempts of the same call; a
\* run has a result exactly when it has terminated, and a terminated run never
\* changes again.
C22_RunTerminatesWithOneResult ==
  /\ \A r \in RunIds : (runs[r].pc = "scheduled") ~> Done(r)
  /\ [](\A r \in RunIds :
          /\ runs[r].attempt \in 1..MaximumAttempts
          /\ runs[r].result # None <=> Done(r))
  /\ [][\A r \in RunIds :
          runs'[r] # runs[r] =>
            /\ MovesForward(runs[r], runs'[r])
            /\ ~Done(r)
            /\ runs[r].result = None]_vars

\* a run that terminated after the last attempt of a call had failed
C22_Witness ==
  \E r \in RunIds :
    /\ Done(r)
    /\ faults = MaximumAttempts
    /\ Caught(r, "Account credit failed: ")

\* C23: validateAccount is a read-only, idempotent step: an attempt changes
\* no account, fraud record or payment record, and every attempt that returns,
\* the first or a retried one, returns the verdict and reason that
\* validateAccount computes from the unchanged accounts.
C23_ValidateAccountReadOnly ==
  /\ [](\A r \in RunIds :
          runs[r].validation # None =>
            runs[r].validation[1] =
              validateAccount(accounts, runs[r].input.fromAccount, runs[r].input.amount))
  /\ [][\A r \in RunIds :
          (runs[r].pc = "VALIDATE" /\ runs'[r] # runs[r]) =>
            /\ accounts' = accounts
            /\ fraudFlags' = fraudFlags
            /\ payments' = payments]_vars

\* the verdict of an accepted account returned by the third attempt of
\* validateAccount, the first two having failed
C23_Witness ==
  \E r \in RunIds :
    /\ runs[r].validation # None
    /\ runs[r].validation[1].isValid
    /\ runs[r].input.amount > 0
    /\ faults = 2

\* ------------------------------------------------------ two concurrent runs
\* the requests of the two runs: sources and destinations that exist, so that
\* the runs can share an account or be on four different ones
PairInputs ==
  [fromAccount : {"ACC2", "ACC4"}, toAccount : {"ACC1", "ACC3"},
   amount : {500, 1000, 2000}]

\* the definitions a request can be started as: v1 by the endpoint of
\* index.ts, v1 or v2 by the routing endpoint
PairDefs(amount) == IF UseV2(amount) THEN {"v1", "v2b"} ELSE {"v1"}

\* the run of a request accepted at time t
StartedAt(t, def, input) ==
  Started(IdleRun,
          IF def = "v1" THEN AppsmithWorkflowId(t) ELSE RoutedWorkflowId(TRUE, t, "7"),
          def, input.fromAccount, input.toAccount, input.amount)

\* run 1 has been accepted, and run 2 has been accepted after it or there is no
\* second request; every gateway call of the two runs answers
InitPair ==
  /\ accounts = InitAccounts
  /\ fraudFlags = InitFraudFlags
  /\ payments = <<>>
  /\ auditLogs = EmptyBag
  /\ lost = MaxLost
  /\ faults = MaxFaults
  /\ now = 2
  /\ \E first \in PairInputs, second \in PairInputs :
       \E def1 \in PairDefs(first.amount), def2 \in PairDefs(second.amount) :
         \E alone \in BOOLEAN :
           runs = [r \in RunIds |->
                     IF r = 1 THEN StartedAt(1, def1, first)
                     ELSE IF alone THEN IdleRun ELSE StartedAt(2, def2, second)]

\* a step of the worker on a started run
RunStep(r) ==
  \/ WorkflowBegin(r)
  \/ LogAuditEvent(r)
  \/ CreatePaymentRequest(r)
  \/ ValidateAccount(r)
  \/ PerformFraudCheck(r)
  \/ DebitRead(r)
  \/ DebitWrite(r)
  \/ CreditRead(r)
  \/ CreditWrite(r)
  \/ UpdatePaymentStatus(r)

NextPair == \E r \in RunIds : RunStep(r)

SpecPair == InitPair /\ [][NextPair]_vars

\* C24: a debit proceeds only on an ACTIVE account with balance >= amount: in
\* every interleaving of the runs, each balance write of debitAccount is made
\* on an ACTIVE account whose balance at the read of that attempt was >= amount,
\* so the balance written is never below zero.
C24_DebitOnlyWithSufficientBalance ==
  \A r \in RunIds :
    \A i \in WritesOf(r, "debitAccount") :
      /\ FindAccount(accounts, runs[r].writes[i].accountNumber)[1].status = "ACTIVE"
      /\ runs[r].writes[i].read >= runs[r].input.amount
      /\ runs[r].writes[i].written >= 0

\* the other of the two runs
Other(r) == CHOOSE q \in RunIds : q # r

\* the accounts a run names
AccountsOf(r) == {runs[r].input.fromAccount, runs[r].input.toAccount}

\* the run executes alone or with a run on different accounts
OnItsOwnAccounts(r) ==
  \/ runs[Other(r)].pc = "idle"
  \/ AccountsOf(r) \cap AccountsOf(Other(r)) = {}

\* what a run of the definition on the input returns and writes on the initial
\* ledger when every gateway call answers: its validation verdict, then its
\* fraud verdict, then the debit and the credit
OutcomeAlone(def, input) ==
  LET v == validateAccount(InitAccounts, input.fromAccount, input.amount)
      f == performFraudCheck(InitFraudFlags, input.fromAccount, input.amount)
      source == FindAccount(InitAccounts, input.fromAccount)[1]
      target == FindAccount(InitAccounts, input.toAccount)[1]
  IN IF ~v.isValid
     THEN [success |-> FALSE, error |-> Some(v.reason),
           stepsExecuted |-> <<"CREATE_PAYMENT_REQUEST", "VALIDATE_ACCOUNT">>,
           writes |-> <<>>, status |-> "FAILED"]
     ELSE IF def # "v1" /\ f.isBlocked
     THEN [success |-> FALSE, error |-> Some(<<"Fraud check failed: ">> \o f.reason),
           stepsExecuted |-> <<"CREATE_PAYMENT_REQUEST", "VALIDATE_ACCOUNT", "FRAUD_CHECK">>,
           writes |-> <<>>, status |-> "BLOCKED_FRAUD"]
     ELSE [success |-> TRUE, error |-> None,
           stepsExecuted |-> SuccessSteps(def),
           writes |-> << BalanceWrite("debitAccount", source,
                                      DebitNewBalance(source, input.amount)),
                         BalanceWrite("creditAccount", target,
                                      CreditNewBalance(target, input.amount)) >>,
           status |-> "COMPLETED"]

\* C25: runs are isolated. A run that executes concurrently with a run on
\* different accounts returns the same success, error and stepsExecuted, makes
\* the same balance writes and sets the same payment status as when it executes
\* alone, under every interleaving of the gateway calls; and the runs share no
\* mutable workflow state: a step changes one run only. (The paymentId is the
\* id the payment gateway gave the run's own record.)
C25_RunsOnDifferentAccountsIsolated ==
  /\ [](\A r \in RunIds :
          (Done(r) /\ OnItsOwnAccounts(r)) =>
            LET alone == OutcomeAlone(runs[r].def, runs[r].input)
                id == runs[r].paymentId[1]
            IN /\ Result(r).success = alone.success
               /\ Result(r).error = alone.error
               /\ Result(r).stepsExecuted = alone.stepsExecuted
               /\ runs[r].writes = alone.writes
               /\ Result(r).paymentId = Some(id)
               /\ payments[id].workflowId = runs[r].workflowId
               /\ payments[id].fromAccount = runs[r].input.fromAccount
               /\ payments[id].status = alone.status)
  /\ [][\A r \in RunIds : runs'[r] # runs[r] => runs'[Other(r)] = runs[Other(r)]]_vars

\* two runs on four different accounts have both returned success=true
C25_Witness ==
  /\ Done(1)
  /\ Done(2)
  /\ AccountsOf(1) \cap AccountsOf(2) = {}
  /\ Result(1).success
  /\ Result(2).success

\* amount times the number of writes, with the sign of the activity
Moved(r, activity) == Cardinality(WritesOf(r, activity)) * runs[r].input.amount

\* C26: debitAccount and creditAccount are not idempotent under retry. Every
\* attempt whose PUT reaches the ledger writes the balance it has just read
\* minus (debit) or plus (credit) amount, also when an earlier attempt of the
\* same step had already written; so with d debit writes and c credit writes
\* of the one step each, d and c up to maximumAttempts, the source stands at
\* its balance before minus d * amount and the destination at its balance
\* before plus c * amount.
C26_RetriedWriteMovesAmountAgain ==
  \A r \in RunIds :
    LET in == runs[r].input
        w == runs[r].writes
    IN /\ \A i \in 1..Len(w) :
            /\ w[i].activity = "debitAccount" => w[i].written = w[i].read - in.amount
            /\ w[i].activity = "creditAccount" => w[i].written = w[i].read + in.amount
            /\ (i > 1 /\ w[i].activity = w[i - 1].activity) => w[i].read = w[i - 1].written
       /\ Cardinality(WritesOf(r, "debitAccount")) <= MaximumAttempts
       /\ Cardinality(WritesOf(r, "creditAccount")) <= MaximumAttempts
       /\ Len(w) > 0 =>
            /\ BalanceOf(accounts, in.fromAccount) =
                 BalanceOf(InitAccounts, in.fromAccount) - Moved(r, "debitAccount")
                   + (IF in.toAccount = in.fromAccount THEN Moved(r, "creditAccount") ELSE 0)
            /\ (Exists(in.toAccount) /\ in.toAccount # in.fromAccount) =>
                 BalanceOf(accounts, in.toAccount) =
                   BalanceOf(InitAccounts, in.toAccount) + Moved(r, "creditAccount")

\* a run that returned success=true after its one DEBIT_ACCOUNT step had taken
\* the amount from the source twice
C26_Witness ==
  \E r \in RunIds :
    /\ Done(r)
    /\ Result(r).success
    /\ runs[r].input.amount > 0
    /\ runs[r].input.toAccount # runs[r].input.fromAccount
    /\ Cardinality(WritesOf(r, "debitAccount")) = 2
    /\ Cardinality(WritesOf(r, "creditAccount")) = 1
    /\ Result(r).stepsExecuted = SuccessSteps(runs[r].def)
    /\ BalanceOf(accounts, runs[r].input.fromAccount) =
         BalanceOf(InitAccounts, runs[r].input.fromAccount) - 2 * runs[r].input.amount

\* C27: the caller boundary starts a run only for a request in which
\* fromAccount, toAccount and amount are present and amount > 0; a request with
\* a missing field, amount = 0 or amount < 0 is rejected and starts no
\* workflow, so no run debits or credits a non-positive amount.
C27_StartsOnlyPositiveAmounts ==
  \A r \in RunIds :
    /\ runs[r].pc \notin {"idle", "rejected"} =>
         /\ runs[r].input.fromAccount # ""
         /\ runs[r].input.toAccount # ""
         /\ runs[r].input.amount > 0
    /\ runs[r].writes # <<>> => runs[r].input.amount > 0

\* the status updates of the failure branches
FailureUpdates ==
  {[name |-> "updatePaymentStatus", arg |-> status] : status \in {"FAILED", "BLOCKED_FRAUD"}}

\* s is a prefix of t
Prefix(s, t) == Len(s) <= Len(t) /\ s = SubSeq(t, 1, Len(s))

\* C28: within a run the external calls are strictly sequential: every step of
\* the run starts at most one call, and the calls made so far are, in order,
\* createPaymentRequest, validateAccount, (performFraudCheck in v2,)
\* debitAccount, creditAccount, updatePaymentStatus(COMPLETED), up to the point
\* the run has reached or left through a failure branch, whose status update
\* is then its last call; creditAccount is invoked only after debitAccount has
\* returned success, and debitAccount only after validateAccount returned
\* isValid=true.
C28_CallsStrictlySequential ==
  /\ [](\A r \in RunIds :
          LET calls == runs[r].calls
              n == Len(calls)
          IN /\ runs[r].def \in Defs =>
                  \/ Prefix(calls, SuccessCalls(runs[r].def))
                  \/ /\ n > 0
                     /\ calls[n] \in FailureUpdates
                     /\ Prefix(SubSeq(calls, 1, n - 1), SuccessCalls(runs[r].def))
             /\ Invoked(r, "creditAccount") =>
                  runs[r].debitResult # None /\ runs[r].debitResult[1].success
             /\ Invoked(r, "debitAccount") =>
                  runs[r].validation # None /\ runs[r].validation[1].isValid)
  /\ [][\A r \in RunIds :
          /\ Len(runs'[r].calls) <= Len(runs[r].calls) + 1
          /\ Prefix(runs[r].calls, runs'[r].calls)]_vars

\* a v2 run has made its six calls
C28_Witness ==
  \E r \in RunIds :
    /\ runs[r].def = "v2b"
    /\ runs[r].calls = SuccessCalls("v2b")
    /\ Done(r)

\* amount the successful run r takes from (Debited) or adds to (Credited) the
\* account
Debited(r, accountNumber) ==
  IF runs[r].input.fromAccount = accountNumber THEN runs[r].input.amount ELSE 0
Credited(r, accountNumber) ==
  IF runs[r].input.toAccount = accountNumber THEN runs[r].input.amount ELSE 0

\* sum of the balances of a ledger
RECURSIVE TotalFrom(_, _)
TotalFrom(accts, i) ==
  IF i > Len(accts) THEN 0 ELSE accts[i].balance + TotalFrom(accts, i + 1)
Total(accts) == TotalFrom(accts, 1)

\* C29: money is conserved across concurrent runs: when two runs that share a
\* source or destination account have both returned success=true, under every
\* interleaving each account's balance is its initial balance minus the
\* amounts those runs debited from it plus the amounts they credited to it,
\* and the total of all balances is unchanged.
C29_MoneyConservedAcrossRuns ==
  (/\ Done(1) /\ Result(1).success
   /\ Done(2) /\ Result(2).success
   /\ AccountsOf(1) \cap AccountsOf(2) # {}) =>
    /\ \A i \in 1..Len(accounts) :
         accounts[i].balance =
           InitAccounts[i].balance
             - Debited(1, accounts[i].accountNumber) - Debited(2, accounts[i].accountNumber)
             + Credited(1, accounts[i].accountNumber) + Credited(2, accounts[i].accountNumber)
    /\ Total(accounts) = Total(InitAccounts)

\* the ledgers differ at most in the balance of the account with the number
SameBut(old, new, accountNumber) ==
  /\ Len(new) = Len(old)
  /\ \A i \in 1..Len(old) :
       IF old[i].accountNumber = accountNumber
       THEN new[i] = [old[i] EXCEPT !.balance = new[i].balance]
       ELSE new[i] = old[i]

\* C30: a run that ends before DEBIT_ACCOUNT (create failure, validation
\* failure or error, fraud block or fraud-check error) leaves every balance
\* unchanged; the only steps that write a balance are the PUT of debitAccount,
\* on the source account only, and the PUT of creditAccount, on the
\* destination account only.
C30_NoBalanceWriteBeforeDebit ==
  /\ [](\A r \in SoloRuns :
          (Done(r) /\ ~Contains(Result(r).stepsExecuted, <<"DEBIT_ACCOUNT">>)) =>
            /\ accounts = InitAccounts
            /\ runs[r].writes = <<>>
            /\ ~Invoked(r, "debitAccount"))
  /\ [][accounts' # accounts =>
          \E r \in RunIds :
            /\ runs'[r] # runs[r]
            /\ \/ /\ runs[r].pc = "DEBIT_PUT"
                  /\ SameBut(accounts, accounts', runs[r].input.fromAccount)
               \/ /\ runs[r].pc = "CREDIT_PUT"
                  /\ SameBut(accounts, accounts', runs[r].input.toAccount)]_vars

\* a v2 run ended by a fraud-check error, and before it a positive amount
\* requested
C30_Witness ==
  \E r \in RunIds :
    /\ Done(r)
    /\ Caught(r, "Fraud check failed: ")
    /\ runs[r].input.amount > 0
    /\ Result(r).stepsExecuted =
         <<"CREATE_PAYMENT_REQUEST", "VALIDATE_ACCOUNT", "FRAUD_CHECK">>

\* the string a template literal evaluates to, from its pieces
RECURSIVE Text(_)
Text(pieces) == IF pieces = <<>> THEN "" ELSE Head(pieces) \o Text(Tail(pieces))

\* GET /api/audit-logs?workflowId=...: the rows with log.workflowId === workflowId
filteredLogs(workflowId) ==
  {log \in BagToSet(auditLogs) : Text(log.workflowId) = Text(workflowId)}

\* C31: the id under which a run writes its audit events and its payment
\* record is the workflowId the start endpoint generated and returned: every
\* event the run has emitted and the record it has created carry that id, so
\* the audit-log query with the caller's id returns the run's events.
C31_AuditIdIsStartId ==
  \A r \in RunIds :
    /\ \A i \in 1..Len(runs[r].emitted) :
         /\ Text(runs[r].emitted[i].workflowId) = Text(runs[r].startId)
         /\ runs[r].emitted[i] \in BagToSet(auditLogs) =>
              runs[r].emitted[i] \in filteredLogs(runs[r].startId)
    /\ runs[r].paymentId # None =>
         Text(payments[runs[r].paymentId[1]].workflowId) = Text(runs[r].startId)

\* ------------------------------------------------- two runs and the clock
\* the requests of two runs whose workflow functions begin at any clock value
ClockInputs ==
  [fromAccount : {"ACC2"}, toAccount : {"ACC1", "ACC3"}, amount : {500, 1000}]

\* run 1 was accepted at clock value 1 and run 2 at clock value 2, so Temporal
\* accepted both start ids; every gateway call of the two runs answers
InitClock ==
  /\ accounts = InitAccounts
  /\ fraudFlags = InitFraudFlags
  /\ payments = <<>>
  /\ auditLogs = EmptyBag
  /\ lost = MaxLost
  /\ faults = MaxFaults
  /\ now = 2
  /\ \E first \in ClockInputs, second \in ClockInputs :
       \E def1 \in PairDefs(first.amount), def2 \in PairDefs(second.amount) :
         runs = [r \in RunIds |->
                   IF r = 1 THEN StartedAt(1, def1, first) ELSE StartedAt(2, def2, second)]

\* the clock Date.now() reads advances
Tick ==
  /\ now < MaxNow
  /\ now' = now + 1
  /\ UNCHANGED <<accounts, fraudFlags, payments, auditLogs, lost, faults, runs>>

NextClock == Tick \/ \E r \in RunIds : RunStep(r)

SpecClock == InitClock /\ [][NextClock]_vars

\* the payment records created under a workflow id
RecordsUnder(workflowId) ==
  {i \in 1..Len(payments) : Text(payments[i].workflowId) = Text(workflowId)}

\* C32: no two runs emit audit events or create payment records under the
\* same workflow id: two runs of the same variant whose workflow functions have
\* begun, at the same clock value or not, have different internal workflowId
\* values, no audit event of one carries the id of the other, and each id has
\* at most one payment record.
C32_InternalIdsDistinct ==
  \A r \in RunIds : \A q \in RunIds \ {r} :
    (/\ runs[r].workflowId # <<>>
     /\ runs[q].workflowId # <<>>
     /\ AuditVersion(runs[r].def) = AuditVersion(runs[q].def)) =>
      /\ Text(runs[r].workflowId) # Text(runs[q].workflowId)
      /\ \A i \in 1..Len(runs[q].emitted) :
           Text(runs[q].emitted[i].workflowId) # Text(runs[r].workflowId)
      /\ Cardinality(RecordsUnder(runs[r].workflowId)) <= 1

\* the calls of the run to the activity
CallsTo(r, name) == {i \in 1..Len(runs[r].calls) : runs[r].calls[i].name = name}

\* the entries of stepsExecuted equal to the step
EntriesOf(r, step) ==
  {i \in 1..Len(runs[r].stepsExecuted) : runs[r].stepsExecuted[i] = step}

\* the sites at which a workflow awaits an activity that can throw
ThrowingSites ==
  {"CREATE", "VALIDATE", "FRAUD", "DEBIT", "DEBIT_PUT", "CREDIT", "CREDIT_PUT"}
    \cup UpdateSites

\* C33: under the retry policy every activity invocation is attempted at most
\* 3 times; the await throws into the catch block only when the third attempt
\* has failed; a retry changes nothing the workflow sees, so an activity that
\* succeeds on attempt 1, 2 or 3 is one call and its step is in stepsExecuted
\* once.
C33_AtMostThreeAttempts ==
  /\ [](\A r \in RunIds :
          /\ runs[r].attempt \in 1..3
          /\ \A i \in 1..Len(runs[r].calls) :
               Cardinality(CallsTo(r, runs[r].calls[i].name)) = 1
          /\ \A i \in 1..Len(runs[r].stepsExecuted) :
               Cardinality(EntriesOf(r, runs[r].stepsExecuted[i])) = 1)
  /\ [][\A r \in RunIds :
          /\ (runs'[r].pc = "L_PAYMENT_FAILED" /\ runs[r].pc # "L_PAYMENT_FAILED") =>
               /\ runs[r].pc \in ThrowingSites
               /\ runs[r].attempt = 3
          /\ runs'[r].attempt > runs[r].attempt =>
               /\ runs'[r].attempt = runs[r].attempt + 1
               /\ runs[r].pc \in ThrowingSites
               /\ AwaitIndex(runs'[r].pc) = AwaitIndex(runs[r].pc)
               /\ runs'[r].stepsExecuted = runs[r].stepsExecuted
               /\ runs'[r].emitted = runs[r].emitted
               /\ runs'[r].error = runs[r].error]_vars

\* createPaymentRequest has returned on its third attempt: the run goes on
\* with one call made and one step recorded
C33_Witness ==
  \E r \in RunIds :
    /\ runs[r].pc = "L_CREATE_SUCCESS"
    /\ faults = 2
    /\ Len(runs[r].calls) = 1
    /\ runs[r].stepsExecuted = <<"CREATE_PAYMENT_REQUEST">>

\* --------------------------------- two definitions on the same responses
\* the requests on which two workflow definitions are compared
TwinInputs ==
  [fromAccount : {"ACC2", "ACC3", "ACC4"}, toAccount : {"ACC1", "ACC9"},
   amount : {500, 12000}]

\* the pairs of definitions compared: v1 with v2, and the two definitions of v2
TwinDefs == {<<"v1", "v2b">>, <<"v2a", "v2b">>}

\* run 1 and run 2 are executions of two definitions on one request. The
\* ledger, the payment records and the audit sink are those of run 1; run 2 is
\* given the answers run 1 is given, which is what executing it on an equal
\* gateway with the same sequence of responses does.
InitTwin ==
  /\ accounts = InitAccounts
  /\ fraudFlags = InitFraudFlags
  /\ payments = <<>>
  /\ auditLogs = EmptyBag
  /\ lost = 0
  /\ faults = 0
  /\ now = 1
  /\ \E input \in TwinInputs, defs \in TwinDefs :
       runs = [q \in RunIds |->
                 Started(IdleRun, RoutedWorkflowId(defs[q] # "v1", 1, "7"), defs[q],
                         input.fromAccount, input.toAccount, input.amount)]

\* both runs are at the same await, on the same attempt
InLockstep == runs[1].pc = runs[2].pc /\ runs[1].attempt = runs[2].attempt

\* both workers start executing the workflow function
TwinBegin ==
  /\ InLockstep
  /\ runs[1].pc = "scheduled"
  /\ runs' = [q \in RunIds |-> Begin(runs[q], now)]
  /\ UNCHANGED <<accounts, fraudFlags, payments, auditLogs, lost, faults, now>>

\* logAuditEvent of both runs: the POST is appended or fails
TwinLogAuditEvent ==
  /\ InLockstep
  /\ runs[1].pc \in AuditSites
  /\ \/ auditLogs' = auditLogs (+) SetToBag({AuditEvent(runs[1])}) /\ lost' = lost
     \/ lost < MaxLost /\ lost' = lost + 1 /\ auditLogs' = auditLogs
  /\ runs' = [q \in RunIds |-> Logged(runs[q])]
  /\ UNCHANGED <<accounts, fraudFlags, payments, faults, now>>

\* createPaymentRequest of both runs
TwinCreatePaymentRequest ==
  /\ InLockstep
  /\ runs[1].pc = "CREATE"
  /\ LET rec == [q \in RunIds |-> Invoke(runs[q], "createPaymentRequest", "")]
         row == NewPaymentRow(rec[1].input.fromAccount, rec[1].input.toAccount,
                              rec[1].input.amount, rec[1].workflowId,
                              PaymentDescription(rec[1].def, "description"))
         message == <<"Payment request creation failed: ", "Error">>
     IN \/ /\ NoFault
           /\ payments' = Append(payments, row)
           /\ runs' = [q \in RunIds |-> Created(rec[q], Len(payments) + 1)]
        \/ /\ Fault
           /\ payments' \in {payments, Append(payments, row)}
           /\ runs' = [q \in RunIds |-> Throw(rec[q], message)]
  /\ UNCHANGED <<accounts, fraudFlags, auditLogs, lost, now>>

\* validateAccount of both runs
TwinValidateAccount ==
  /\ InLockstep
  /\ runs[1].pc = "VALIDATE"
  /\ LET rec == [q \in RunIds |-> Invoke(runs[q], "validateAccount", "")]
         message == <<"Account validation failed: ", "Error">>
     IN \/ /\ NoFault
           /\ runs' = [q \in RunIds |->
                  AfterValidate([rec[q] EXCEPT !.validation =
                    Some(validateAccount(accounts, rec[q].input.fromAccount,
                                         rec[q].input.amount))])]
        \/ /\ Fault
           /\ runs' = [q \in RunIds |-> Throw(rec[q], message)]
  /\ UNCHANGED <<accounts, fraudFlags, payments, auditLogs, lost, now>>

\* performFraudCheck of both runs, when both definitions have the step
TwinPerformFraudCheck ==
  /\ InLockstep
  /\ runs[1].pc = "FRAUD"
  /\ LET rec == [q \in RunIds |-> Invoke(runs[q], "performFraudCheck", "")]
         message == <<"Fraud check failed: ", "Error">>
     IN \/ /\ NoFault
           /\ runs' = [q \in RunIds |->
                  AfterFraudCheck([rec[q] EXCEPT !.fraudResult =
                    Some(performFraudCheck(fraudFlags, rec[q].input.fromAccount,
                                           rec[q].input.amount))])]
        \/ /\ Fault
           /\ runs' = [q \in RunIds |-> Throw(rec[q], message)]
  /\ UNCHANGED <<accounts, fraudFlags, payments, auditLogs, lost, now>>

\* first half of an attempt of debitAccount / creditAccount of both runs
TwinReadAccount(site, putSite, activity, accountNumber, failed, suffix) ==
  /\ InLockstep
  /\ runs[1].pc = site
  /\ LET rec == [q \in RunIds |-> Invoke(runs[q], activity, "")]
         account == FindAccount(accounts, accountNumber)
     IN \/ /\ NoFault
           /\ IF account = None
              THEN runs' = [q \in RunIds |->
                              Throw(rec[q], <<failed, "Error: Account ", accountNumber,
                                              " not found for ", suffix>>)]
              ELSE IF account[1].id = ""
              THEN runs' = [q \in RunIds |->
                              Throw(rec[q], <<failed, "Error: Account ", accountNumber,
                                              " missing ID field - cannot update">>)]
              ELSE runs' = [q \in RunIds |->
                              [rec[q] EXCEPT !.account = account, !.pc = putSite]]
        \/ /\ Fault
           /\ runs' = [q \in RunIds |-> Throw(rec[q], <<failed, "Error">>)]
  /\ UNCHANGED <<accounts, fraudFlags, payments, auditLogs, lost, now>>

TwinDebitRead ==
  TwinReadAccount("DEBIT", "DEBIT_PUT", "debitAccount", runs[1].input.fromAccount,
                  "Account debit failed: ", "debit")

\* debitAccount of both runs from axios.put on
TwinDebitWrite ==
  /\ InLockstep
  /\ runs[1].pc = "DEBIT_PUT"
  /\ LET newBalance == [q \in RunIds |->
                          DebitNewBalance(runs[q].account[1], runs[q].input.amount)]
         written == [q \in RunIds |->
                       [runs[q] EXCEPT !.writes =
                          Append(@, BalanceWrite("debitAccount", runs[q].account[1],
                                                 newBalance[q]))]]
         message == <<"Account debit failed: ", "Error">>
     IN \/ /\ NoFault
           /\ accounts' = PutAccount(accounts, runs[1].account[1], newBalance[1])
           /\ runs' = [q \in RunIds |->
                  AfterDebit([written[q] EXCEPT !.debitResult =
                    Some([success |-> TRUE, newBalance |-> newBalance[q]])])]
        \/ /\ Fault
           /\ accounts' = accounts
           /\ runs' = [q \in RunIds |-> Throw(runs[q], message)]
        \/ /\ Fault
           /\ accounts' = PutAccount(accounts, runs[1].account[1], newBalance[1])
           /\ runs' = [q \in RunIds |-> Throw(written[q], message)]
  /\ UNCHANGED <<fraudFlags, payments, auditLogs, lost, now>>

TwinCreditRead ==
  TwinReadAccount("CREDIT", "CREDIT_PUT", "creditAccount", runs[1].input.toAccount,
                  "Account credit failed: ", "credit")

\* creditAccount of both runs from axios.put on
TwinCreditWrite ==
  /\ InLockstep
  /\ runs[1].pc = "CREDIT_PUT"
  /\ LET newBalance == [q \in RunIds |->
                          CreditNewBalance(runs[q].account[1], runs[q].input.amount)]
         written == [q \in RunIds |->
                       [runs[q] EXCEPT !.writes =
                          Append(@, BalanceWrite("creditAccount", runs[q].account[1],
                                                 newBalance[q]))]]
         message == <<"Account credit failed: ", "Error">>
     IN \/ /\ NoFault
           /\ accounts' = PutAccount(accounts, runs[1].account[1], newBalance[1])
           /\ runs' = [q \in RunIds |->
                  AfterCredit([written[q] EXCEPT !.creditResult =
                    Some([success |-> TRUE, newBalance |-> newBalance[q]])])]
        \/ /\ Fault
           /\ accounts' = accounts
           /\ runs' = [q \in RunIds |-> Throw(runs[q], message)]
        \/ /\ Fault
           /\ accounts' = PutAccount(accounts, runs[1].account[1], newBalance[1])
           /\ runs' = [q \in RunIds |-> Throw(written[q], message)]
  /\ UNCHANGED <<fraudFlags, payments, auditLogs, lost, now>>

\* updatePaymentStatus of both runs
TwinUpdatePaymentStatus ==
  /\ InLockstep
  /\ runs[1].pc \in UpdateSites
  /\ LET rec == [q \in RunIds |->
                   Invoke(runs[q], "updatePaymentStatus", UpdateStatus(runs[q].pc))]
         id == rec[1].paymentId[1]
         updated == [payments EXCEPT ![id] =
                       UpdatedPaymentRow(@, UpdateStatus(rec[1].pc), UpdateDetails(rec[1]))]
         message == <<"Payment status update failed: ", "Error">>
     IN \/ /\ NoFault
           /\ payments' = updated
           /\ runs' = [q \in RunIds |-> AfterUpdate(rec[q])]
        \/ /\ Fault
           /\ payments' \in {payments, updated}
           /\ runs' = [q \in RunIds |-> Throw(rec[q], message)]
  /\ UNCHANGED <<accounts, fraudFlags, auditLogs, lost, now>>

\* the step v2 has and v1 has not, up to the point where the v2 run joins the
\* v1 run at DEBIT_ACCOUNT: run 1 waits there for run 2
InsertedStep ==
  /\ runs[1].def = "v1"
  /\ runs[1].pc = "L_DEBIT_PENDING"
  /\ runs[2].pc \in {"L_FRAUD_PENDING", "FRAUD", "L_FRAUD_SUCCESS"}
  /\ LogAuditEvent(2) \/ PerformFraudCheck(2)

NextTwin ==
  \/ TwinBegin
  \/ TwinLogAuditEvent
  \/ TwinCreatePaymentRequest
  \/ TwinValidateAccount
  \/ TwinPerformFraudCheck
  \/ TwinDebitRead
  \/ TwinDebitWrite
  \/ TwinCreditRead
  \/ TwinCreditWrite
  \/ TwinUpdatePaymentStatus
  \/ InsertedStep

SpecTwin == InitTwin /\ [][NextTwin]_vars

\* the sequence without its elements that are in the set
RECURSIVE Except(_, _)
Except(s, dropped) ==
  IF s = <<>> THEN <<>>
  ELSE IF Head(s) \in dropped THEN Except(Tail(s), dropped)
  ELSE <<Head(s)>> \o Except(Tail(s), dropped)

\* the fields of a PaymentResult the definitions are compared on
Outcome(r) ==
  IF runs[r].result = None THEN None
  ELSE Some([success |-> Result(r).success, paymentId |-> Result(r).paymentId,
             error |-> Result(r).error])

\* what the gateways are asked and answer in both runs: the view each run has
\* of the ledger and the payment gateway, and the balance writes it has made
SameGatewayView ==
  /\ runs[1].input = runs[2].input
  /\ runs[1].paymentId = runs[2].paymentId
  /\ runs[1].validation = runs[2].validation
  /\ runs[1].account = runs[2].account
  /\ runs[1].debitResult = runs[2].debitResult
  /\ runs[1].creditResult = runs[2].creditResult
  /\ runs[1].writes = runs[2].writes
  /\ runs[1].error = runs[2].error

\* the v2 run has left the common path at the inserted step: it is in it, or
\* the step has blocked the payment or has thrown
InFraudStep ==
  /\ runs[1].pc = "L_DEBIT_PENDING"
  /\ \/ runs[2].pc \in {"L_FRAUD_PENDING", "FRAUD", "L_FRAUD_SUCCESS"}
     \/ runs[2].fraudResult # None /\ runs[2].fraudResult[1].isBlocked
     \/ Caught(2, "Fraud check failed: ")

\* C34: v2 is v1 with one inserted step. On the same request and the same
\* gateway responses the v2 run stays at the await the v1 run is at, apart from
\* the inserted step; it leaves the common path only if the fraud check blocks
\* or throws. While it is on it, and so whenever the fraud check has returned
\* isBlocked=false, both runs have made the same ledger and payment-gateway
\* calls and the same balance writes, have the same paymentId, error and
\* success, and their stepsExecuted differ by the FRAUD_CHECK entry only.
C34_V2IsV1PlusFraudCheck ==
  runs[1].def = "v1" =>
    /\ InLockstep \/ InFraudStep
    /\ (runs[2].fraudResult # None /\ ~runs[2].fraudResult[1].isBlocked) =>
         InLockstep \/ runs[2].pc = "L_FRAUD_SUCCESS"
    /\ InLockstep =>
         /\ SameGatewayView
         /\ Except(runs[2].calls, {[name |-> "performFraudCheck", arg |-> ""]})
              = runs[1].calls
         /\ Except(runs[2].stepsExecuted, {"FRAUD_CHECK"}) = runs[1].stepsExecuted
         /\ Outcome(2) = Outcome(1)
         /\ Len(runs[2].stepsExecuted) <= Len(runs[1].stepsExecuted) + 1
         /\ Done(1) =>
              Except(Result(2).stepsExecuted, {"FRAUD_CHECK"}) = Result(1).stepsExecuted

\* both runs have returned success after a failed attempt, the v2 run with
\* the FRAUD_CHECK step between validation and debit
C34_Witness ==
  /\ runs[1].def = "v1"
  /\ Done(1) /\ Done(2)
  /\ Result(1).success /\ Result(2).success
  /\ faults > 0
  /\ Result(2).stepsExecuted[3] = "FRAUD_CHECK"
  /\ Len(Result(2).stepsExecuted) = Len(Result(1).stepsExecuted) + 1

\* the values a status update writes
UpdatedStatuses == {"FAILED", "BLOCKED_FRAUD", "COMPLETED"}

\* the runs whose payment record is the record with the id
OwnersOf(id) == {r \in RunIds : runs[r].paymentId = Some(id)}

\* C35: the status of a payment record follows a one-way lifecycle. A record
\* is created as PENDING; a run makes at most one updatePaymentStatus call, for
\* its own record and with FAILED, BLOCKED_FRAUD or COMPLETED; a record leaves
\* PENDING only by that call and, once updated, keeps its status, retries of
\* the call included; after the run has ended its record does not change.
C35_StatusLifecycle ==
  /\ [](/\ \A r \in RunIds :
             /\ Cardinality(CallsTo(r, "updatePaymentStatus")) <= 1
             /\ \A i \in CallsTo(r, "updatePaymentStatus") :
                  runs[r].calls[i].arg \in UpdatedStatuses /\ runs[r].paymentId # None
        /\ \A id \in 1..Len(payments) :
             \/ payments[id].status = "PENDING"
             \/ /\ payments[id].status \in UpdatedStatuses
                /\ \E r \in OwnersOf(id) :
                     InvokedWith(r, "updatePaymentStatus", payments[id].status))
  /\ [][/\ Len(payments') >= Len(payments)
        /\ \A id \in 1..Len(payments') :
             IF id > Len(payments)
             THEN payments'[id].status = "PENDING"
             ELSE /\ payments[id].status # "PENDING" =>
                       payments'[id].status = payments[id].status
                  /\ payments'[id] # payments[id] =>
                       \E r \in OwnersOf(id) :
                         runs[r].pc \in UpdateSites /\ runs'[r] # runs[r] /\ ~Done(r)]_vars

\* a run blocked by the fraud check has ended with its record BLOCKED_FRAUD,
\* the update having been retried
C35_Witness ==
  \E r \in RunIds :
    /\ Done(r)
    /\ faults > 0
    /\ ~Caught(r, "Payment status update failed: ")
    /\ InvokedWith(r, "updatePaymentStatus", "BLOCKED_FRAUD")
    /\ payments[runs[r].paymentId[1]].status = "BLOCKED_FRAUD"
    /\ Len(payments) = 1

\* C36: the two definitions of modernPaymentV2Workflow are behaviourally
\* equivalent. On the same request and the same gateway responses both runs
\* are always at the same await on the same attempt, have made the same
\* gateway calls in the same order with the same answers and balance writes,
\* have emitted audit events with the same step names and statuses, and return
\* objects that are equal in success, paymentId, error, stepsExecuted and
\* version and differ in the architecture tag and the fraudCheckResult summary
\* only.
C36_V2DefinitionsEquivalent ==
  runs[1].def = "v2a" =>
    /\ runs[2].def = "v2b"
    /\ InLockstep
    /\ SameGatewayView
    /\ runs[1].fraudResult = runs[2].fraudResult
    /\ runs[1].calls = runs[2].calls
    /\ runs[1].stepsExecuted = runs[2].stepsExecuted
    /\ EmittedPairs(1) = EmittedPairs(2)
    /\ Done(1) <=> Done(2)
    /\ Done(1) =>
         /\ [Result(2) EXCEPT !.architecture = Result(1).architecture,
                              !.fraudCheckResult = Result(1).fraudCheckResult] = Result(1)
         /\ Result(1).architecture # Result(2).architecture
         /\ Result(1).fraudCheckResult = None

\* both definitions have ended a payment the fraud check blocked, after a
\* failed attempt; only the second reports the fraudCheckResult summary
C36_Witness ==
  /\ runs[1].def = "v2a"
  /\ Done(1) /\ Done(2)
  /\ faults > 0
  /\ Result(1).error = Result(2).error
  /\ Result(2).fraudCheckResult # None
  /\ Result(2).fraudCheckResult[1].action = "blocked"
  /\ InvokedWith(1, "updatePaymentStatus", "BLOCKED_FRAUD")

====
